---- MODULE Spec2Model ----
(***************************************************************************)
(* Model of the Hashicorp Vault account plugin: the vault session pool     *)
(* (construction, AppRole login, renewal and re-authentication), the       *)
(* credential lookup in the environment, and the vault read/write          *)
(* response handling.                                                      *)
(*                                                                         *)
(* The repository holds the session code twice: package manager            *)
(* (src/internal/signer.go) and package hashicorp                          *)
(* (src/internal/vault/hashicorp/client.go).  The variable pkg says which  *)
(* of the two is running; every behaviour fixes it at the start.           *)
(***************************************************************************)
EXTENDS Integers, Sequences, FiniteSets, TLC

VARIABLES
    pkg,         \* "manager" (signer.go) or "hashicorp" (client.go)
    env,         \* the process environment: variable name -> value
    envChanges,  \* how many times the environment was changed (bounded)
    config,      \* config.Auth: the sequence of auth-IDs of the vault config
    built,       \* how many entries of config.Auth the constructor has processed
    mgr,         \* "constructing" | "ready" (manager returned) | "failed" (error returned)
    clients,     \* the map authID -> session (0: no entry); the returned pool when mgr = "ready"
    sess,        \* the authenticatedClient objects created so far, by creation index
    issued,      \* number of tokens the vault has issued by AppRole login
    renewable,   \* the issued leases that are renewable
    renewed,     \* the issued leases whose renewal succeeded at least once
    lastRead,    \* the last read dispatched through the pool
    credsArg,    \* getAuthCredentials: the authID argument
    credsRes,    \* getAuthCredentials: the result
    ioReq,       \* vault read/write: the VaultSecretConfig of the request
    ioResp,      \* vault read/write: the response of the vault
    ioRes,       \* vault read/write: what the operation returned
    kv,          \* the versioned key-value store of the vault: path -> versions
    written,     \* the writes storeInVault reported as successful
    rtRead,      \* the last read against the store: its config and result
    dir,         \* the keystore directory: file path -> content and change key
    fileC,       \* fileCache: the change key recorded for every file at the last scan
    All,         \* AccountCache.All
    ByAddr,      \* AccountCache.ByAddr
    scans,       \* the scanAccounts calls in progress, one per scanning task
    unlocked,    \* the accounts handed to the unlocker by TimedUnlock
    notify,      \* number of pulses buffered in the notify channel (capacity 1)
    nDir,        \* number of changes made to the directory (bounded)
    nCalls,      \* number of direct Add, delete and deleteByFile calls (bounded)
    obs,         \* the view a reader copied out while a scan was in progress
    seen,        \* that view, with the index before and after the scan it overlapped
    scanned,     \* scans completed since the last directory change or direct call (up to 2)
    findRes,     \* the last Find call: its argument, the cache it ran on, its result
    now,         \* the time, in seconds
    throttle,    \* AccountCache.throttle: the timer, its channel and its deadline
    watcher,     \* the directory watcher: "stopped" | "starting" | "running"
    reloads,     \* the times at which MaybeReload started a scan
    reloadRes,   \* the last MaybeReload call: its time and what it did
    wallets,     \* the URLs of the wallets the backend holds
    events,      \* am.events: the wallet events on the channel
    enq,         \* the wallet events the backend has sent, in order
    subs,        \* the subscriptions registered with the backend, by stream
    eventSubscription,  \* am.eventSubscription: a stream's subscription, or 0 for nil
    streams,     \* the GetEventStream calls: position, wallets held, connection
    delivered,   \* what each stream has sent to its caller
    rpcLog,      \* the calls of the other operations: request, result, steps taken
    acctManager, \* HashicorpPlugin.acctManager: the Init call that built it, or 0 for nil
    keyCall,     \* the last GetKey call: its arguments, the file, the secret, the result
    storeCall,   \* the last StoreKey call: its arguments, the vault's answer, the
                 \* metadata file before and after, the result
    notifyField, \* ac.notify: "chan", or "nil" once Close has run
    closings,    \* how many times the notify channel was closed
    closes       \* number of Close calls (bounded)

poolVars  == <<pkg, envChanges, config, built, mgr, clients, sess, issued, renewable, renewed, lastRead>>
credsVars == <<credsArg, credsRes>>
ioVars    == <<ioReq, ioResp, ioRes>>
rtVars    == <<kv, written, rtRead>>
cacheVars == <<dir, fileC, All, ByAddr, scans, unlocked, notify, nDir, nCalls, obs, seen, scanned, findRes>>
reloadVars == <<now, throttle, watcher, reloads, reloadRes>>
streamVars == <<wallets, events, enq, subs, eventSubscription, streams, delivered>>
rpcVars == <<rpcLog, acctManager>>
keyVars == <<keyCall, storeCall>>
closeVars == <<notifyField, closings, closes>>
frontVars == <<reloadVars, streamVars, rpcVars, keyVars, closeVars>>
vars      == <<poolVars, env, credsVars, ioVars, rtVars, cacheVars, frontVars>>

(***************************************************************************)
(* Bounds of the model.                                                    *)
(***************************************************************************)
MaxAuth       == 2   \* longest config.Auth
MaxLogins     == 2   \* tokens the vault issues in one behaviour
MaxEnvChanges == 1   \* changes of the environment in one behaviour

AuthIDs   == {"", "a"}
EnvValues == {"", "x"}

(***************************************************************************)
(* Environment variables and credentials.                                  *)
(***************************************************************************)
DefaultRoleIDEnv   == "QRM_HASHIVLT_ROLE_ID"
DefaultSecretIDEnv == "QRM_HASHIVLT_SECRET_ID"
DefaultTokenEnv    == "QRM_HASHIVLT_TOKEN"

applyPrefix(pre, val) == IF pre = "" THEN val ELSE pre \o "_" \o val

EnvNames == { applyPrefix(a, v) : a \in AuthIDs,
              v \in {DefaultRoleIDEnv, DefaultSecretIDEnv, DefaultTokenEnv} }

Getenv(e, name) == IF name \in DOMAIN e THEN e[name] ELSE ""

noCreds == [roleID |-> "", secretID |-> "", token |-> ""]

getAuthCredentialsMissingXor(authID, e) ==
    LET roleID   == Getenv(e, applyPrefix(authID, DefaultRoleIDEnv))
        secretID == Getenv(e, applyPrefix(authID, DefaultSecretIDEnv))
        token    == Getenv(e, applyPrefix(authID, DefaultTokenEnv))
    IN  IF roleID = "" /\ secretID = "" /\ token = ""
        THEN [err |-> "noHashicorpEnvSetErr", creds |-> noCreds]
        ELSE IF token = "" /\ (roleID = "" \/ secretID = "")
        THEN [err |-> "invalidApproleAuthErr", creds |-> noCreds]
        ELSE [err |-> "nil",
              creds |-> [roleID |-> roleID, secretID |-> secretID, token |-> token]]

getAuthCredentials(authID, e) ==
    LET roleID   == Getenv(e, applyPrefix(authID, DefaultRoleIDEnv))
        secretID == Getenv(e, applyPrefix(authID, DefaultSecretIDEnv))
        token    == Getenv(e, applyPrefix(authID, DefaultTokenEnv))
    IN  IF roleID = "" /\ secretID = "" /\ token = ""
        THEN [err |-> "noHashicorpEnvSetErr", creds |-> noCreds]
        ELSE IF (roleID = "" /\ secretID # "") \/ (roleID # "" /\ secretID = "")
        THEN [err |-> "invalidApproleAuthErr", creds |-> noCreds]
        ELSE [err |-> "nil",
              creds |-> [roleID |-> roleID, secretID |-> secretID, token |-> token]]

usingApproleAuth(creds) == creds.roleID # "" /\ creds.secretID # ""

(***************************************************************************)
(* Tokens, leases and the vault's answers to an AppRole login.             *)
(***************************************************************************)
NoToken       == [src |-> "none", n |-> 0]       \* the empty string token
EnvToken      == [src |-> "env", n |-> 0]        \* the token read from the environment
VaultToken(n) == [src |-> "vault", n |-> n]      \* the token of the n-th AppRole login

\* Logical().Write on auth/<approle>/login: an error, an empty response
\* (nil secret, nil error), or a secret with a renewable or non-renewable token.
LoginResponses == {"err", "empty", "renewable", "nonrenewable"}

approleLogin(creds, resp) == IF usingApproleAuth(creds) THEN resp ELSE "err"

Issues(resp) == resp \in {"renewable", "nonrenewable"}

reauthRetryInterval == 5000

NoSession ==
    [made |-> FALSE, approle |-> FALSE, auth |-> "", token |-> NoToken,
     renewer |-> 0, drv |-> "none", drvLease |-> 0, doneErr |-> "nil",
     pc |-> "none", firstLease |-> 0, lastIssued |-> 0, prevFailed |-> FALSE, waited |-> 0,
     attAfterFail |-> FALSE, attWaited |-> 0]

Sessions == 1..MaxAuth

(***************************************************************************)
(* newAuthenticatedClient: the outcome for one auth config, given the      *)
(* environment e, the vault's answer resp to the login (if one is made),   *)
(* the package p and the number lease of the token a login would issue.    *)
(***************************************************************************)
startsRenew(p, isRenewable) ==
    IF p = "manager" THEN isRenewable ELSE TRUE

newAuthenticatedClient(authID, e, resp, p, lease) ==
    LET r     == getAuthCredentials(authID, e)
        login == approleLogin(r.creds, resp)
        task  == startsRenew(p, login = "renewable")
    IN  IF r.err # "nil"
        THEN [ok |-> FALSE, login |-> "none", ac |-> NoSession]
        ELSE IF ~usingApproleAuth(r.creds)
        THEN [ok |-> TRUE, login |-> "none",
              ac |-> [NoSession EXCEPT !.made = TRUE, !.auth = authID, !.token = EnvToken]]
        ELSE IF ~Issues(login)
        THEN \* login error, or an empty response, for which NewRenewer fails
             [ok |-> FALSE, login |-> login, ac |-> NoSession]
        ELSE [ok |-> TRUE, login |-> login,
              ac |-> [NoSession EXCEPT
                        !.made = TRUE, !.approle = TRUE, !.auth = authID,
                        !.token = VaultToken(lease), !.renewer = lease,
                        !.firstLease = lease, !.lastIssued = lease,
                        !.pc = IF task THEN "select" ELSE "none",
                        !.drv = IF task THEN "running" ELSE "none",
                        !.drvLease = IF task THEN lease ELSE 0]]

NoClients == [a \in AuthIDs |-> 0]

\* What newVaultClientManager does after entry i of n: return the error,
\* return the pool, or go on with the next entry.
mgrAfterIgnoringErr(ok, i, n) == IF i = n THEN "ready" ELSE "constructing"

mgrAfter(ok, i, n) ==
    IF ~ok THEN "failed" ELSE IF i = n THEN "ready" ELSE "constructing"

(***************************************************************************)
(* Re-authentication.                                                      *)
(***************************************************************************)
\* package manager: reauthenticate() on session record ac.  An empty login
\* response has the empty token ID, which is installed before NewRenewer
\* rejects the missing secret.
reauthenticate(ac, e, resp, lease) ==
    LET r     == getAuthCredentials(ac.auth, e)
        login == approleLogin(r.creds, resp)
    IN  IF r.err # "nil"
        THEN [err |-> TRUE, login |-> "none", ac |-> ac]
        ELSE IF login = "err"
        THEN [err |-> TRUE, login |-> login, ac |-> ac]
        ELSE IF login = "empty"
        THEN [err |-> TRUE, login |-> login,
              ac |-> [ac EXCEPT !.token = NoToken]]
        ELSE [err |-> FALSE, login |-> login,
              ac |-> [ac EXCEPT !.token = VaultToken(lease),
                                !.renewer = lease, !.lastIssued = lease]]

\* package hashicorp: the body of renew()'s DoneCh case.  Errors are logged
\* and the code goes on: with the zero credentials after a credentials
\* error, with the nil response after a login error, whose token ID is the
\* empty string.  ac.renewer is not replaced.
hashicorpReauth(ac, e, resp, lease) ==
    LET r     == getAuthCredentials(ac.auth, e)
        login == approleLogin(r.creds, resp)
    IN  [err |-> ~Issues(login), login |-> login,
         ac |-> [ac EXCEPT
                           !.token = IF Issues(login) THEN VaultToken(lease) ELSE NoToken,
                           !.lastIssued = IF Issues(login) THEN lease ELSE @]]

\* The vault's bookkeeping of a login answer.
VaultAfter(login) ==
    /\ issued' = IF Issues(login) THEN issued + 1 ELSE issued
    /\ renewable' = IF login = "renewable" THEN renewable \cup {issued + 1} ELSE renewable

CanAnswer(resp) == Issues(resp) => issued < MaxLogins

(***************************************************************************)
(* The initial state: nothing constructed yet.                             *)
(***************************************************************************)
Configs == UNION { [1..n -> AuthIDs] : n \in 1..MaxAuth }

NoRead == [auth |-> "", found |-> FALSE, token |-> NoToken, pc |-> "none", n |-> 0]

PoolInit ==
    /\ pkg \in {"manager", "hashicorp"}
    /\ envChanges = 0
    /\ config \in Configs
    /\ built = 0
    /\ mgr = "constructing"
    /\ clients = NoClients
    /\ sess = [i \in Sessions |-> NoSession]
    /\ issued = 0
    /\ renewable = {}
    /\ renewed = {}
    /\ lastRead = NoRead

(***************************************************************************)
(* newVaultClientManager: one iteration of the loop over config.Auth, with *)
(* the return that follows the last one or an error.                       *)
(***************************************************************************)
newVaultClientManager ==
    /\ mgr = "constructing"
    /\ built < Len(config)
    /\ \E resp \in LoginResponses :
          LET i   == built + 1
              out == newAuthenticatedClient(config[i], env, resp, pkg, issued + 1)
          IN  /\ CanAnswer(resp)
              /\ built' = i
              /\ mgr' = mgrAfter(out.ok, i, Len(config))
              /\ sess' = [sess EXCEPT ![i] = out.ac]
              /\ clients' = IF mgr' = "failed" THEN NoClients
                            ELSE IF out.ok THEN [clients EXCEPT ![config[i]] = i]
                            ELSE clients
              /\ VaultAfter(out.login)
    /\ UNCHANGED <<pkg, env, envChanges, config, renewed, lastRead>>

(***************************************************************************)
(* The renewal driver (api.Renewer.Renew) of a session.                    *)
(***************************************************************************)
DriverRenew(s) ==
    /\ sess[s].drv = "running"
    /\ sess[s].drvLease \in renewable
    /\ sess[s].drvLease \notin renewed
    /\ renewed' = renewed \cup {sess[s].drvLease}
    /\ UNCHANGED <<pkg, env, envChanges, config, built, mgr, clients, sess, issued,
                   renewable, lastRead>>

DriverDone(s) ==
    /\ sess[s].drv = "running"
    /\ \E e \in {"nil", "err"} :
          /\ sess[s].drvLease \notin renewable => e = "err"
          /\ sess' = [sess EXCEPT ![s].drv = "done", ![s].doneErr = e]
    /\ UNCHANGED <<pkg, env, envChanges, config, built, mgr, clients, issued,
                   renewable, renewed, lastRead>>

(***************************************************************************)
(* The renewal task renew() of a session.                                  *)
(***************************************************************************)
\* package manager: re-authentication begins on a renewal, the driver still
\* running
RenewDoneManagerOnRenewal(s) ==
    /\ pkg = "manager"
    /\ sess[s].pc = "select"
    /\ sess[s].drv \in {"running", "done"}
    /\ sess[s].drvLease = sess[s].renewer
    /\ sess' = [sess EXCEPT ![s].pc = "reauth", ![s].prevFailed = FALSE, ![s].waited = 0]
    /\ UNCHANGED <<pkg, env, envChanges, config, built, mgr, clients, issued,
                   renewable, renewed, lastRead>>

\* package manager: the DoneCh case up to the first call of reauthenticate.
RenewDoneManager(s) ==
    /\ pkg = "manager"
    /\ sess[s].pc = "select"
    /\ sess[s].drv = "done"
    /\ sess[s].drvLease = sess[s].renewer
    /\ sess' = [sess EXCEPT ![s].pc = "reauth", ![s].drv = "none",
                            ![s].prevFailed = FALSE, ![s].waited = 0]
    /\ UNCHANGED <<pkg, env, envChanges, config, built, mgr, clients, issued,
                   renewable, renewed, lastRead>>

\* package manager: one iteration of the retry loop, up to the sleep or to
\* the restart of the driver.
Reauthenticate(s) ==
    /\ pkg = "manager"
    /\ sess[s].pc = "reauth"
    /\ \E resp \in LoginResponses :
          LET out == reauthenticate(sess[s], env, resp, issued + 1)
              ac  == [out.ac EXCEPT !.attAfterFail = sess[s].prevFailed,
                                    !.attWaited = sess[s].waited,
                                    !.waited = 0]
          IN  /\ CanAnswer(resp)
              /\ sess' = [sess EXCEPT ![s] =
                            IF out.err
                            THEN [ac EXCEPT !.pc = "sleep", !.prevFailed = TRUE]
                            ELSE [ac EXCEPT !.pc = "select", !.prevFailed = FALSE,
                                            !.drv = "running", !.drvLease = ac.renewer]]
              /\ VaultAfter(out.login)
    /\ UNCHANGED <<pkg, env, envChanges, config, built, mgr, clients, renewed, lastRead>>

\* package manager: time.Sleep(reauthRetryInterval) returns.
BackoffElapsed(s) ==
    /\ pkg = "manager"
    /\ sess[s].pc = "sleep"
    /\ sess' = [sess EXCEPT ![s].pc = "reauth", ![s].waited = reauthRetryInterval]
    /\ UNCHANGED <<pkg, env, envChanges, config, built, mgr, clients, issued,
                   renewable, renewed, lastRead>>

\* package hashicorp: the whole DoneCh case.
RenewDoneHashicorp(s) ==
    /\ pkg = "hashicorp"
    /\ sess[s].pc = "select"
    /\ sess[s].drv = "done"
    /\ sess[s].drvLease = sess[s].renewer
    /\ \E resp \in LoginResponses :
          LET out == hashicorpReauth(sess[s], env, resp, issued + 1)
          IN  /\ CanAnswer(resp)
              /\ sess' = [sess EXCEPT ![s] =
                            [out.ac EXCEPT !.attAfterFail = sess[s].prevFailed,
                                           !.attWaited = 0,
                                           !.prevFailed = out.err,
                                           !.drv = "running",
                                           !.drvLease = out.ac.renewer]]
              /\ VaultAfter(out.login)
    /\ UNCHANGED <<pkg, env, envChanges, config, built, mgr, clients, renewed, lastRead>>

\* The variables the configured auth-IDs read; the others are left unset.
ConfiguredEnvNames ==
    { applyPrefix(config[i], v) : i \in 1..Len(config),
      v \in {DefaultRoleIDEnv, DefaultSecretIDEnv, DefaultTokenEnv} }

(***************************************************************************)
(* The environment changes while the plugin runs.                          *)
(***************************************************************************)
EnvChange ==
    /\ envChanges < MaxEnvChanges
    /\ mgr = "ready"
    /\ \E name \in ConfiguredEnvNames, v \in EnvValues :
          /\ v # env[name]
          /\ env' = [env EXCEPT ![name] = v]
    /\ envChanges' = envChanges + 1
    /\ UNCHANGED <<pkg, config, built, mgr, clients, sess, issued, renewable, renewed, lastRead>>

(***************************************************************************)
(* Reads through the pool.                                                 *)
(***************************************************************************)
\* m.clients[authID]: the session of authID, 0 when the map has no entry.
lookupHiddenDuringReauth(cl, authID) ==
    IF authID \in DOMAIN cl /\ cl[authID] # 0 /\ sess[cl[authID]].pc \in {"none", "select"}
    THEN cl[authID] ELSE 0

lookup(cl, authID) ==
    IF authID \in DOMAIN cl THEN cl[authID] ELSE 0

\* A read is dispatched on the session found, with the token installed on it.
dispatch(cl, authID, n) ==
    LET c == lookup(cl, authID)
    IN  [auth |-> authID, found |-> c # 0,
         token |-> IF c # 0 THEN sess[c].token ELSE NoToken,
         pc |-> IF c # 0 THEN sess[c].pc ELSE "none", n |-> n]

MaxReads == 1

PoolRead ==
    /\ mgr = "ready"
    /\ lastRead.n < MaxReads
    /\ \E a \in AuthIDs : lastRead' = dispatch(clients, a, lastRead.n + 1)
    /\ UNCHANGED <<pkg, env, envChanges, config, built, mgr, clients, sess, issued,
                   renewable, renewed>>

PoolNext ==
    \/ newVaultClientManager
    \/ \E s \in Sessions : DriverRenew(s)
    \/ \E s \in Sessions : DriverDone(s)
    \/ \E s \in Sessions : RenewDoneManager(s)
    \/ \E s \in Sessions : Reauthenticate(s)
    \/ \E s \in Sessions : BackoffElapsed(s)
    \/ \E s \in Sessions : RenewDoneHashicorp(s)
    \/ EnvChange
    \/ PoolRead

CredsIdle == credsArg = "" /\ credsRes = [err |-> "none", creds |-> noCreds]

NoIO == [op |-> "none"]

IOIdle == ioReq = NoIO /\ ioResp = NoIO /\ ioRes = NoIO

RTIdle == kv = <<>> /\ written = {} /\ rtRead = NoIO

CacheIdle ==
    /\ dir = <<>> /\ fileC = <<>> /\ All = <<>> /\ ByAddr = <<>> /\ scans = <<>>
    /\ unlocked = {} /\ notify = 0 /\ nDir = 0 /\ nCalls = 0
    /\ obs = NoIO /\ seen = NoIO /\ scanned = 0 /\ findRes = NoIO

\* a nil throttle
NoTimer == [made |-> FALSE, C |-> 0, at |-> -1]

ReloadIdle ==
    /\ now = 0 /\ throttle = NoTimer /\ watcher = "stopped" /\ reloads = <<>>
    /\ reloadRes = NoIO

\* NewAccountCache: notify is a channel, open
CloseIdle ==
    /\ notifyField = "chan" /\ closings = 0 /\ closes = 0

KeyIdle ==
    /\ keyCall = NoIO
    /\ storeCall = NoIO

FrontIdle ==
    /\ ReloadIdle
    /\ wallets = {} /\ events = <<>> /\ enq = <<>> /\ subs = {} /\ eventSubscription = 0
    /\ streams = <<>> /\ delivered = <<>>
    /\ rpcLog = <<>> /\ acctManager = 0
    /\ KeyIdle
    /\ CloseIdle

Init ==
    /\ PoolInit
    /\ env \in [EnvNames -> EnvValues]
    /\ \A name \in EnvNames \ ConfiguredEnvNames : env[name] = ""
    /\ CredsIdle
    /\ IOIdle
    /\ RTIdle
    /\ CacheIdle
    /\ FrontIdle

Next == PoolNext /\ UNCHANGED <<credsVars, ioVars, rtVars, cacheVars, frontVars>>

Spec == Init /\ [][Next]_vars

(***************************************************************************)
(* getAuthCredentials on its own: any environment, any auth-ID.            *)
(***************************************************************************)
PoolIdle ==
    /\ pkg \in {"manager", "hashicorp"}
    /\ envChanges = 0
    /\ config = <<"">>
    /\ built = 0
    /\ mgr = "constructing"
    /\ clients = NoClients
    /\ sess = [i \in Sessions |-> NoSession]
    /\ issued = 0
    /\ renewable = {}
    /\ renewed = {}
    /\ lastRead = NoRead

CredsInit ==
    /\ PoolIdle
    /\ env \in [EnvNames -> EnvValues]
    /\ credsArg \in AuthIDs
    /\ credsRes = [err |-> "none", creds |-> noCreds]
    /\ IOIdle
    /\ RTIdle
    /\ CacheIdle
    /\ FrontIdle

GetAuthCredentials ==
    /\ credsRes.err = "none"
    /\ credsRes' = getAuthCredentials(credsArg, env)
    /\ UNCHANGED <<poolVars, env, credsArg, ioVars, rtVars, cacheVars, frontVars>>

CredsNext == GetAuthCredentials

SpecCreds == CredsInit /\ [][CredsNext]_vars

(***************************************************************************)
(* Decimal conversions: strconv.FormatInt(v, 10) and json.Number.Int64,    *)
(* which is strconv.ParseInt(text, 10, 64).  A number text is a sequence   *)
(* of characters.                                                          *)
(***************************************************************************)
Digits == <<"0", "1", "2", "3", "4", "5", "6", "7", "8", "9">>

RECURSIVE FormatNat(_)
FormatNat(n) ==
    IF n < 10 THEN Digits[n + 1] ELSE FormatNat(n \div 10) \o Digits[(n % 10) + 1]

FormatInt(v) == IF v < 0 THEN "-" \o FormatNat(-v) ELSE FormatNat(v)

DigitValue(c) == CHOOSE d \in 0..9 : Digits[d + 1] = c

IsDigit(c) == \E d \in 0..9 : Digits[d + 1] = c

RECURSIVE ParseNat(_, _)
ParseNat(text, acc) ==
    IF text = <<>> THEN acc ELSE ParseNat(Tail(text), acc * 10 + DigitValue(Head(text)))

\* [ok, v]: ok is FALSE for a syntax error
ParseInt(text) ==
    LET signed == text # <<>> /\ Head(text) \in {"+", "-"}
        body   == IF signed THEN Tail(text) ELSE text
    IN  IF body = <<>> \/ \E i \in 1..Len(body) : ~IsDigit(body[i])
        THEN [ok |-> FALSE, v |-> 0]
        ELSE [ok |-> TRUE,
              v |-> IF signed /\ Head(text) = "-" THEN -ParseNat(body, 0) ELSE ParseNat(body, 0)]

(***************************************************************************)
(* Reading a secret: getSecretFromVault.                                   *)
(***************************************************************************)
VaultAddr == "https://vault"

SecretConfigs ==
    [authID : AuthIDs, engine : {"kv"}, path : {"acct"}, version : {0, 1, 12},
     skipCas : BOOLEAN, cas : {0, 1}]

\* The values a secret's data may hold.
StrVal(str) == [type |-> "string", v |-> str]
SecretValues == {StrVal("aa"), StrVal(""), [type |-> "number", v |-> "7"], [type |-> "nil", v |-> ""]}
SecretKeys == {"k1", "k2"}
DataMaps == UNION { [K -> SecretValues] : K \in SUBSET SecretKeys }
NoMap == [k \in {} |-> StrVal("")]

\* What ReadWithData returns: an error, no secret, or a secret whose
\* Data["data"] is absent, not a mapping, or a mapping.
ReadResponses ==
    {[op |-> "read", kind |-> k, dtype |-> "absent", m |-> NoMap] : k \in {"err", "nil", "secret"}}
    \cup {[op |-> "read", kind |-> "secret", dtype |-> "string", m |-> NoMap]}
    \cup {[op |-> "read", kind |-> "secret", dtype |-> "map", m |-> m] : m \in DataMaps}

NotSent == [op |-> "read", kind |-> "notsent", dtype |-> "absent", m |-> NoMap]

dataPath(cfg) == cfg.engine \o "/data/" \o cfg.path

\* len(respData) != 1
noPairs(m) == Cardinality(DOMAIN m) = 0

notOnePair(m) == Cardinality(DOMAIN m) # 1

\* versionData["version"]
versionDataLatest(cfg) == "0"

versionData(cfg) == FormatInt(cfg.version)

getSecretFromVault(cl, cfg, resp) ==
    LET path    == dataPath(cfg)
        version == versionData(cfg)
        res(secret, err) == [op |-> "read", secret |-> secret, err |-> err,
                             path |-> path, version |-> version]
    IN  IF lookup(cl, cfg.authID) = 0
        THEN res("", "no client configured")
        ELSE IF resp.kind = "err"
        THEN res("", "unable to get secret")
        ELSE IF resp.kind = "nil"
        THEN res("", "no data for secret")
        ELSE IF resp.dtype # "map"
        THEN res("", "response does not contain data")
        ELSE IF notOnePair(resp.m)
        THEN res("", "only one key/value pair is allowed")
        ELSE LET d == resp.m[CHOOSE k \in DOMAIN resp.m : TRUE]
             IN  IF d.type # "string"
                 THEN res("", "response data is not in string format")
                 ELSE res(d.v, "nil")

(***************************************************************************)
(* Writing a secret: storeInVault.                                         *)
(***************************************************************************)
\* The texts a json.Number version may have.
NumberTexts ==
    {<<"1">>, <<"3">>, <<"1", "2">>, <<"-", "1">>, <<"1", ".", "5">>, <<"1", "e", "3">>}

\* What Write returns: an error, an empty response (nil secret, nil error),
\* or a secret whose Data["version"] is absent, a json.Number or a string.
WriteResponses ==
    {[op |-> "write", kind |-> k, vtype |-> "absent", vtext |-> <<>>] : k \in {"err", "nil", "secret"}}
    \cup {[op |-> "write", kind |-> "secret", vtype |-> "number", vtext |-> t] : t \in NumberTexts}
    \cup {[op |-> "write", kind |-> "secret", vtype |-> "string", vtext |-> <<"1">>]}

WriteNotSent == [op |-> "write", kind |-> "notsent", vtype |-> "absent", vtext |-> <<>>]

\* v.(json.Number) with the ok flag ignored: the empty number for any other type
asJsonNumber(resp) == IF resp.vtype = "number" THEN resp.vtext ELSE <<>>

storeInVault(cl, cfg, resp) ==
    LET path == dataPath(cfg)
        res(uri, version, err, errUri) ==
            [op |-> "write", uri |-> uri, version |-> version, err |-> err,
             errUri |-> errUri, panic |-> FALSE, path |-> path,
             cas |-> IF cfg.skipCas THEN "none" ELSE FormatInt(cfg.cas)]
    IN  IF lookup(cl, cfg.authID) = 0
        THEN res("", 0, "no client configured", "")
        ELSE IF resp.kind = "err"
        THEN res("", 0, "unable to write secret", "")
        ELSE IF resp.kind = "nil"
        THEN \* resp.Data on the nil response: nil pointer dereference
             [res("", 0, "none", "") EXCEPT !.panic = TRUE]
        ELSE IF resp.vtype = "absent"
        THEN res("", 0, "unable to get version", VaultAddr \o "/v1/" \o path)
        ELSE LET n == ParseInt(asJsonNumber(resp))
             IN  IF ~n.ok
                 THEN res("", 0, "unable to convert version", VaultAddr \o "/v1/" \o path)
                 ELSE res(VaultAddr \o "/v1/" \o path \o "?version=" \o FormatInt(n.v),
                          n.v, "nil", "")

(***************************************************************************)
(* Reads and writes through a pool of token sessions.                      *)
(***************************************************************************)
TokenEnv ==
    [name \in EnvNames |->
        IF \E i \in 1..Len(config) : name = applyPrefix(config[i], DefaultTokenEnv)
        THEN "x" ELSE ""]

LastEntry(a) ==
    IF \E i \in 1..Len(config) : config[i] = a
    THEN CHOOSE i \in 1..Len(config) :
            config[i] = a /\ \A j \in 1..Len(config) : config[j] = a => j <= i
    ELSE 0

\* The pool newVaultClientManager returns when every auth-ID has a token.
TokenPool ==
    /\ env = TokenEnv
    /\ built = Len(config)
    /\ mgr = "ready"
    /\ clients = [a \in AuthIDs |-> LastEntry(a)]
    /\ sess = [i \in Sessions |->
                 IF i <= Len(config)
                 THEN newAuthenticatedClient(config[i], TokenEnv, "err", pkg, 0).ac
                 ELSE NoSession]
    /\ issued = 0
    /\ renewable = {}
    /\ renewed = {}

IOInit ==
    /\ pkg \in {"manager", "hashicorp"}
    /\ config \in Configs
    /\ envChanges = 0
    /\ lastRead = NoRead
    /\ TokenPool
    /\ CredsIdle
    /\ IOIdle
    /\ RTIdle
    /\ CacheIdle
    /\ FrontIdle

GetSecretFromVault ==
    /\ ioRes = NoIO
    /\ \E cfg \in SecretConfigs, resp \in ReadResponses :
          /\ ioReq' = cfg
          /\ ioResp' = IF lookup(clients, cfg.authID) = 0 THEN NotSent ELSE resp
          /\ ioRes' = getSecretFromVault(clients, cfg, resp)
    /\ UNCHANGED <<poolVars, env, credsVars, rtVars, cacheVars, frontVars>>

\* package hashicorp has no storeInVault: its StoreKey is not implemented.
StoreInVault ==
    /\ ioRes = NoIO
    /\ pkg = "manager"
    /\ \E cfg \in SecretConfigs, resp \in WriteResponses :
          /\ ioReq' = cfg
          /\ ioResp' = IF lookup(clients, cfg.authID) = 0 THEN WriteNotSent ELSE resp
          /\ ioRes' = storeInVault(clients, cfg, resp)
    /\ UNCHANGED <<poolVars, env, credsVars, rtVars, cacheVars, frontVars>>

IONext == GetSecretFromVault \/ StoreInVault

SpecIO == IOInit /\ [][IONext]_vars

(***************************************************************************)
(* Write, then read back: storeInVault and getSecretFromVault against a    *)
(* version 2 key-value secrets engine.  The engine keeps every version of  *)
(* a path, numbers them from 1, replaces the whole data on a write, checks *)
(* the cas option against the current version, and answers a read of       *)
(* version 0 with the latest version.                                      *)
(***************************************************************************)
MaxWrites == 2   \* versions written to one path in one behaviour

HexDigits == <<"0", "1", "2", "3", "4", "5", "6", "7", "8", "9", "a", "b", "c", "d", "e", "f">>

\* hex.EncodeToString
RECURSIVE HexEncode(_)
HexEncode(bytes) ==
    IF bytes = <<>> THEN ""
    ELSE HexDigits[(Head(bytes) \div 16) + 1] \o HexDigits[(Head(bytes) % 16) + 1]
         \o HexEncode(Tail(bytes))

\* crypto.FromECDSA: the secret scalar D, big-endian, padded to 32 bytes
KeyBytes == 32

RECURSIVE PaddedBigBytes(_, _)
PaddedBigBytes(d, n) ==
    IF n = 0 THEN <<>> ELSE Append(PaddedBigBytes(d \div 256, n - 1), d % 256)

FromECDSA(d) == PaddedBigBytes(d, KeyBytes)

\* The keys written: an address and the secret scalar of the private key.
Keys == [address : {<<10, 255>>}, d : {1, 4660}]

\* keyHex and addrHex of every key, computed once
KeyHex == [k \in Keys |-> HexEncode(FromECDSA(k.d))]

AddrHex == [k \in Keys |-> HexEncode(k.address)]

\* data["data"]: one pair, the hex address and the hex key
secretData(k) == AddrHex[k] :> StrVal(KeyHex[k])

\* data["options"]["cas"], when InsecureSkipCas is not set
casOption(cfg) == IF cfg.skipCas THEN "none" ELSE FormatInt(cfg.cas)

RECURSIVE NumberText(_)
NumberText(n) ==
    IF n < 10 THEN <<Digits[n + 1]>> ELSE Append(NumberText(n \div 10), Digits[(n % 10) + 1])

RTConfigs ==
    [authID : AuthIDs, engine : {"kv"}, path : {"acct", "acct2"}, version : 0..MaxWrites,
     skipCas : BOOLEAN, cas : {0, 1}]

RTPaths == { dataPath(cfg) : cfg \in RTConfigs }

\* The engine's answer to a write, and the store after it.
KvWrite(store, path, data, cas) ==
    IF cas # "none" /\ cas # FormatInt(Len(store[path]))
    THEN [store |-> store,
          resp |-> [op |-> "write", kind |-> "err", vtype |-> "absent", vtext |-> <<>>]]
    ELSE [store |-> [store EXCEPT ![path] = Append(@, data)],
          resp |-> [op |-> "write", kind |-> "secret", vtype |-> "number",
                    vtext |-> NumberText(Len(store[path]) + 1)]]

\* The engine's answer to a read of a version: no secret for a version it
\* does not hold.
KvRead(store, path, version) ==
    LET held == { v \in 1..Len(store[path]) :
                    FormatInt(v) = version \/ (version = "0" /\ v = Len(store[path])) }
    IN  IF held = {}
        THEN [op |-> "read", kind |-> "nil", dtype |-> "absent", m |-> NoMap]
        ELSE [op |-> "read", kind |-> "secret", dtype |-> "map",
              m |-> store[path][CHOOSE v \in held : TRUE]]

RTInit ==
    /\ pkg = "manager"
    /\ config \in Configs
    /\ envChanges = 0
    /\ lastRead = NoRead
    /\ TokenPool
    /\ CredsIdle
    /\ IOIdle
    /\ kv = [p \in RTPaths |-> <<>>]
    /\ written = {}
    /\ rtRead = NoIO
    /\ CacheIdle
    /\ FrontIdle

\* storeInVault of a key; a successful write is recorded with its version
RTStore ==
    \E cfg \in RTConfigs, k \in Keys :
        LET path == dataPath(cfg)
            sent == lookup(clients, cfg.authID) # 0
            w    == KvWrite(kv, path, secretData(k), casOption(cfg))
            res  == storeInVault(clients, cfg, IF sent THEN w.resp ELSE WriteNotSent)
        IN  /\ cfg.version = 0
            /\ Len(kv[path]) < MaxWrites
            /\ kv' = IF sent THEN w.store ELSE kv
            /\ written' = IF res.err = "nil"
                          THEN written \cup {[authID |-> cfg.authID, engine |-> cfg.engine,
                                              path |-> cfg.path, version |-> res.version,
                                              key |-> k]}
                          ELSE written
            /\ UNCHANGED <<poolVars, env, credsVars, ioVars, rtRead, cacheVars, frontVars>>

RTRead ==
    \E cfg \in RTConfigs :
        LET sent == lookup(clients, cfg.authID) # 0
            resp == IF sent THEN KvRead(kv, dataPath(cfg), versionData(cfg)) ELSE NotSent
        IN  /\ ~cfg.skipCas /\ cfg.cas = 0
            /\ rtRead' = [cfg |-> cfg, known |-> written,
                          res |-> getSecretFromVault(clients, cfg, resp)]
            /\ UNCHANGED <<poolVars, env, credsVars, ioVars, kv, written, cacheVars, frontVars>>

RTNext == RTStore \/ RTRead

SpecRoundTrip == RTInit /\ [][RTNext]_vars

(***************************************************************************)
(* The account cache (package cache).  Strings that are compared, split or *)
(* joined are sequences of characters.  An account is an address and a     *)
(* URL (scheme and path); address 0 is the zero address.                   *)
(***************************************************************************)
MaxDirChanges == 2   \* changes made to the directory in one behaviour
MaxCalls      == 1   \* direct Add, delete and deleteByFile calls in one behaviour
MaxScanners   == 2   \* tasks that may run scanAccounts at the same time

\* the characters used, in byte order
Alphabet == <<"/", "a", "b", "e", "k", "o", "r", "s", "t", "x", "y">>

CharRank(ch) == CHOOSE i \in 1..Len(Alphabet) : Alphabet[i] = ch

\* strings.Compare
RECURSIVE Compare(_, _)
Compare(s, t) ==
    IF s = <<>> /\ t = <<>> THEN 0
    ELSE IF s = <<>> THEN -1
    ELSE IF t = <<>> THEN 1
    ELSE IF CharRank(Head(s)) < CharRank(Head(t)) THEN -1
    ELSE IF CharRank(Head(s)) > CharRank(Head(t)) THEN 1
    ELSE Compare(Tail(s), Tail(t))

\* accounts.URL.Cmp: by scheme, then by path
Cmp(u, v) ==
    IF u.Scheme = v.Scheme THEN Compare(u.Path, v.Path) ELSE Compare(u.Scheme, v.Scheme)

Separator == "/"

\* strings.ContainsRune(path, filepath.Separator)
ContainsSeparator(path) == \E i \in 1..Len(path) : path[i] = Separator

\* filepath.Join of a clean directory and a separator-free name
Join(d, name) == d \o <<Separator>> \o name

KeyStoreScheme == <<"k", "e", "y", "s", "t", "o", "r", "e">>

keydir == <<"/", "k">>

FileNames == {<<"a">>, <<"b">>}

Files == { Join(keydir, n) : n \in FileNames }

ZeroAddress == 0

Addresses == {1, 2}

NoAccount == [Address |-> ZeroAddress, URL |-> [Scheme |-> <<>>, Path |-> <<>>]]

\* AsAccount: the account of a metadata file
AsAccount(path, addr) ==
    [Address |-> addr, URL |-> [Scheme |-> KeyStoreScheme, Path |-> path]]

\* The accounts a direct call may name: the accounts of files, and one
\* account of another scheme.
CallAccounts ==
    { AsAccount(f, a) : f \in Files, a \in Addresses }
    \cup {[Address |-> 1, URL |-> [Scheme |-> <<"a">>, Path |-> Join(keydir, <<"x">>)]]}

\* a map lookup: the nil slice for an absent key
Lookup(m, k) == IF k \in DOMAIN m THEN m[k] ELSE <<>>

Put(m, k, v) == [x \in DOMAIN m \cup {k} |-> IF x = k THEN v ELSE m[x]]

Drop(m, k) == [x \in DOMAIN m \ {k} |-> m[x]]

\* sort.Search(n, f): binary search for the smallest index in 0..n at which
\* f holds; pred[h + 1] is f(h)
RECURSIVE SearchFrom(_, _, _)
SearchFrom(pred, i, j) ==
    IF i >= j THEN i
    ELSE LET h == (i + j) \div 2
         IN  IF ~pred[h + 1] THEN SearchFrom(pred, h + 1, j) ELSE SearchFrom(pred, i, h)

Search(pred) == SearchFrom(pred, 0, Len(pred))

\* slice[:i] followed by elem and slice[i:]
InsertAt(slice, i, elem) ==
    [h \in 1..Len(slice) + 1 |->
        IF h <= i THEN slice[h] ELSE IF h = i + 1 THEN elem ELSE slice[h - 1]]

\* append(slice[:i], slice[i+1:]...)
RemoveAt(slice, i) ==
    [h \in 1..Len(slice) - 1 |-> IF h <= i THEN slice[h] ELSE slice[h + 1]]

\* Add that appends to All instead of inserting at the search position
AddAtEnd(c, newAccount) ==
    LET n == Len(c.All)
        i == Search([h \in 1..n |-> Cmp(c.All[h].URL, newAccount.URL) >= 0])
    IN  IF i < n /\ c.All[i + 1] = newAccount
        THEN c
        ELSE [All |-> Append(c.All, newAccount),
              ByAddr |-> Put(c.ByAddr, newAccount.Address,
                             Append(Lookup(c.ByAddr, newAccount.Address), newAccount))]

Add(c, newAccount) ==
    LET n == Len(c.All)
        i == Search([h \in 1..n |-> Cmp(c.All[h].URL, newAccount.URL) >= 0])
    IN  IF i < n /\ c.All[i + 1] = newAccount
        THEN c
        ELSE [All |-> InsertAt(c.All, i, newAccount),
              ByAddr |-> Put(c.ByAddr, newAccount.Address,
                             Append(Lookup(c.ByAddr, newAccount.Address), newAccount))]

removeAccount(slice, elem) ==
    IF \E i \in 1..Len(slice) : slice[i] = elem
    THEN RemoveAt(slice, (CHOOSE i \in 1..Len(slice) :
                            slice[i] = elem /\ \A j \in 1..(i - 1) : slice[j] # elem) - 1)
    ELSE slice

\* the ByAddr map after removeAccount(ac.ByAddr[removed.Address], removed)
withoutByAddr(byAddr, removed) ==
    LET ba == removeAccount(Lookup(byAddr, removed.Address), removed)
    IN  IF Len(ba) = 0 THEN Drop(byAddr, removed.Address)
        ELSE Put(byAddr, removed.Address, ba)

delete(c, removed) ==
    [All |-> removeAccount(c.All, removed), ByAddr |-> withoutByAddr(c.ByAddr, removed)]

\* deleteByFile that leaves the ByAddr view alone
deleteByFileAllOnly(c, path) ==
    LET n == Len(c.All)
        i == Search([h \in 1..n |-> Compare(c.All[h].URL.Path, path) >= 0])
    IN  IF i < n /\ c.All[i + 1].URL.Path = path
        THEN [All |-> RemoveAt(c.All, i), ByAddr |-> c.ByAddr]
        ELSE c

deleteByFile(c, path) ==
    LET n == Len(c.All)
        i == Search([h \in 1..n |-> Compare(c.All[h].URL.Path, path) >= 0])
    IN  IF i < n /\ c.All[i + 1].URL.Path = path
        THEN [All |-> RemoveAt(c.All, i), ByAddr |-> withoutByAddr(c.ByAddr, c.All[i + 1])]
        ELSE c

(***************************************************************************)
(* The directory and its scan.  A file is absent or has a content and a    *)
(* change key; a content is the address of a valid metadata file or one of *)
(* the ways a file can be bad.  fileCache.scan compares the change key of  *)
(* every file with the one it recorded at the last scan.                   *)
(***************************************************************************)
BadKinds == {"unreadable", "undecodable", "invalid"}

Contents ==
    {[kind |-> "valid", addr |-> a] : a \in Addresses}
    \cup {[kind |-> k, addr |-> 1] : k \in BadKinds}

Absent == [c |-> [kind |-> "absent", addr |-> ZeroAddress], t |-> 0]

\* os.Open, Unmarshal, Validate and AsAccount; NoAccount stands for nil.
\* Here: without the Validate check
readAccountUnvalidated(d, path) ==
    IF d[path] = Absent \/ d[path].c.kind \in {"unreadable", "undecodable"} THEN NoAccount
    ELSE AsAccount(path, d[path].c.addr)

readAccount(d, path) ==
    IF d[path] = Absent \/ d[path].c.kind \in BadKinds THEN NoAccount
    ELSE AsAccount(path, d[path].c.addr)

\* fileCache.scan: creates, deletes, updates
creates(d, fc) == { f \in Files : d[f] # Absent /\ fc[f] = 0 }

deletes(d, fc) == { f \in Files : d[f] = Absent /\ fc[f] # 0 }

updates(d, fc) == { f \in Files : d[f] # Absent /\ fc[f] # 0 /\ fc[f] # d[f].t }

recorded(d) == [f \in Files |-> d[f].t]

\* set.ToSlice(): the elements in any order
ToSlice(S) == { q \in [1..Cardinality(S) -> S] : \A i, j \in 1..Cardinality(S) : q[i] = q[j] => i = j }

\* the lock sections of one scan, in order: the loops over creates,
\* deletes and updates
RECURSIVE updateSteps(_)
updateSteps(q) ==
    IF q = <<>> THEN <<>>
    ELSE <<[op |-> "deleteByFile", path |-> Head(q)], [op |-> "Add", path |-> Head(q)]>>
         \o updateSteps(Tail(q))

scanSteps(qc, qd, qu) ==
    [i \in 1..Len(qc) |-> [op |-> "Add", path |-> qc[i]]]
    \o [i \in 1..Len(qd) |-> [op |-> "deleteByFile", path |-> qd[i]]]
    \o updateSteps(qu)

toUnlock == {1}

\* unlockIfConfigured that hands every account to TimedUnlock
unlockIfConfiguredAny(acct) == {acct}

\* unlockIfConfigured: the accounts handed to TimedUnlock
unlockIfConfigured(acct) == IF acct.Address \in toUnlock THEN {acct} ELSE {}

\* what unlocker.TimedUnlock returns
UnlockErrs == {"nil", "failed"}

\* unlocker.TimedUnlock(acct, 0) and its result
TimedUnlockCall(acct, err) == [acct |-> acct, timeout |-> 0, err |-> err]

IdleScan ==
    [pc |-> "idle", todo |-> <<>>, pre |-> <<>>, gen |-> 0, alone |-> TRUE,
     unlocking |-> NoAccount, pulsed |-> FALSE]

Scanners == 1..MaxScanners

AllIdle == \A s \in Scanners : scans[s].pc = "idle"

CacheInit ==
    /\ dir = [f \in Files |-> Absent]
    /\ fileC = [f \in Files |-> 0]
    /\ All = <<>>
    /\ ByAddr = <<>>
    /\ scans = [s \in Scanners |-> IdleScan]
    /\ unlocked = {}
    /\ notify = 0
    /\ nDir = 0
    /\ nCalls = 0
    /\ obs = NoIO
    /\ seen = NoIO
    /\ scanned = 0
    /\ findRes = NoIO

\* a scan that began after the last directory change and direct call has
\* completed
scannedAfter(gen) == IF gen = nDir + nCalls /\ scanned < 2 THEN scanned + 1 ELSE scanned

\* the scans in progress are no longer the only writer of the cache
notAlone(sc) ==
    [s \in Scanners |-> IF sc[s].pc = "run" THEN [sc[s] EXCEPT !.alone = FALSE] ELSE sc[s]]

\* a file is written, rewritten or removed
DirChange ==
    /\ nDir < MaxDirChanges
    /\ \E f \in Files, c \in Contents \cup {Absent.c} :
          /\ c = Absent.c => dir[f] # Absent
          /\ dir' = [dir EXCEPT ![f] = IF c = Absent.c THEN Absent ELSE [c |-> c, t |-> nDir + 1]]
    /\ nDir' = nDir + 1
    /\ scanned' = 0
    /\ UNCHANGED <<fileC, All, ByAddr, scans, unlocked, notify, nCalls, obs, seen, findRes>>

\* scanAccounts up to its first lock section: the file scan and the order
\* of the loops; with no change it returns at once
ScanBegin(s) ==
    /\ scans[s].pc = "idle"
    /\ fileC' = recorded(dir)
    /\ \E qc \in ToSlice(creates(dir, fileC)), qd \in ToSlice(deletes(dir, fileC)),
          qu \in ToSlice(updates(dir, fileC)) :
          /\ scans' = IF scanSteps(qc, qd, qu) = <<>> THEN scans
                       ELSE [notAlone(scans) EXCEPT ![s] =
                                [pc |-> "run", todo |-> scanSteps(qc, qd, qu),
                                 pre |-> [All |-> All, ByAddr |-> ByAddr],
                                 gen |-> nDir + nCalls, alone |-> AllIdle,
                                 unlocking |-> NoAccount, pulsed |-> FALSE]]
          /\ scanned' = IF scanSteps(qc, qd, qu) = <<>> THEN scannedAfter(nDir + nCalls)
                         ELSE scanned
    /\ UNCHANGED <<dir, All, ByAddr, unlocked, notify, nDir, nCalls, obs, seen, findRes>>

\* one lock section of a scan: deleteByFile, or readAccount and Add; an
\* added account on the unlock list is then on its way to TimedUnlock
ScanStep(s) ==
    /\ scans[s].pc = "run"
    /\ scans[s].todo # <<>>
    /\ scans[s].unlocking = NoAccount
    /\ LET step == Head(scans[s].todo)
           c    == [All |-> All, ByAddr |-> ByAddr]
           a    == readAccount(dir, step.path)
           next == IF step.op = "deleteByFile" THEN deleteByFile(c, step.path)
                   ELSE IF a = NoAccount THEN c
                   ELSE Add(c, a)
       IN  /\ All' = next.All
           /\ ByAddr' = next.ByAddr
           /\ scans' = [scans EXCEPT ![s].todo = Tail(@),
                                     ![s].unlocking =
                                         IF step.op = "Add" /\ a # NoAccount
                                            /\ unlockIfConfigured(a) # {}
                                         THEN a ELSE NoAccount,
                                     ![s].pulsed = FALSE]
    /\ UNCHANGED <<dir, fileC, unlocked, notify, nDir, nCalls, obs, seen, scanned, findRes>>

\* unlockIfConfigured of a scan: TimedUnlock returns, with or without an
\* error, and the loop goes on
ScanUnlock(s) ==
    /\ scans[s].pc = "run"
    /\ scans[s].unlocking # NoAccount
    /\ \E err \in UnlockErrs :
          unlocked' = unlocked \cup {TimedUnlockCall(scans[s].unlocking, err)}
    /\ scans' = [scans EXCEPT ![s].unlocking = NoAccount, ![s].pulsed = FALSE]
    /\ UNCHANGED <<dir, fileC, All, ByAddr, notify, nDir, nCalls, obs, seen, scanned, findRes>>

\* the scans whose TimedUnlock is in progress have seen a pulse sent
pulsedOthers(sc, s) ==
    [t \in Scanners |-> IF t # s /\ sc[t].unlocking # NoAccount
                         THEN [sc[t] EXCEPT !.pulsed = TRUE] ELSE sc[t]]

\* make(chan struct{}, 1)
NotifyCap == 1

\* a send that is queued whatever the channel holds
pulseQueued(n) == n + 1

\* select { case ac.notify <- struct{}{}: default: }: the channel after the
\* send, which is dropped when the buffer is full
pulse(n) == IF n < NotifyCap THEN n + 1 ELSE n

\* the end of a scan: the pulse on the notify channel, dropped when one is
\* buffered already
ScanEnd(s) ==
    /\ scans[s].pc = "run"
    /\ scans[s].todo = <<>>
    /\ scans[s].unlocking = NoAccount
    /\ notify' = pulse(notify)
    /\ scans' = [pulsedOthers(scans, s) EXCEPT ![s] = IdleScan]
    /\ seen' = IF obs # NoIO /\ obs.scan = s
               THEN [view |-> obs.view, pre |-> scans[s].pre,
                     post |-> [All |-> All, ByAddr |-> ByAddr], alone |-> scans[s].alone]
               ELSE seen
    /\ obs' = IF obs # NoIO /\ obs.scan = s THEN NoIO ELSE obs
    /\ scanned' = scannedAfter(scans[s].gen)
    /\ UNCHANGED <<dir, fileC, All, ByAddr, unlocked, nDir, nCalls, findRes>>

\* Add, delete or deleteByFile called directly
CacheCall ==
    /\ nCalls < MaxCalls
    /\ \E a \in CallAccounts, op \in {"Add", "delete", "deleteByFile"} :
          LET c    == [All |-> All, ByAddr |-> ByAddr]
              next == IF op = "Add" THEN Add(c, a)
                      ELSE IF op = "delete" THEN delete(c, a)
                      ELSE deleteByFile(c, a.URL.Path)
          IN  All' = next.All /\ ByAddr' = next.ByAddr
    /\ nCalls' = nCalls + 1
    /\ scans' = notAlone(scans)
    /\ scanned' = 0
    /\ UNCHANGED <<dir, fileC, unlocked, notify, nDir, obs, seen, findRes>>

\* Accounts and HasAddress under the lock, while scan s is in progress:
\* the reader's view of both indexes
Observe(s) ==
    /\ scans[s].pc = "run"
    /\ obs = NoIO
    /\ seen = NoIO
    /\ obs' = [scan |-> s, view |-> [All |-> All, ByAddr |-> ByAddr]]
    /\ UNCHANGED <<dir, fileC, All, ByAddr, scans, unlocked, notify, nDir, nCalls, seen, scanned, findRes>>

\* the owner of the notify channel takes the pulse
Consume ==
    /\ notify > 0
    /\ notify' = notify - 1
    /\ UNCHANGED <<dir, fileC, All, ByAddr, scans, unlocked, nDir, nCalls, obs, seen, scanned, findRes>>

CacheNext ==
    \/ DirChange
    \/ \E s \in Scanners : ScanBegin(s)
    \/ \E s \in Scanners : ScanStep(s)
    \/ \E s \in Scanners : ScanUnlock(s)
    \/ \E s \in Scanners : ScanEnd(s)
    \/ CacheCall
    \/ \E s \in Scanners : Observe(s)

CacheSpecInit ==
    /\ pkg = "manager"
    /\ PoolIdle
    /\ env = [name \in EnvNames |-> ""]
    /\ CredsIdle
    /\ IOIdle
    /\ RTIdle
    /\ CacheInit
    /\ FrontIdle

CacheSpecNext == CacheNext /\ UNCHANGED <<poolVars, env, credsVars, ioVars, rtVars, frontVars>>

SpecCache == CacheSpecInit /\ [][CacheSpecNext]_vars

\* The scans with the reader of the notify channel, and no direct call.
ScanNext ==
    \/ DirChange
    \/ \E s \in Scanners : ScanBegin(s)
    \/ \E s \in Scanners : ScanStep(s)
    \/ \E s \in Scanners : ScanUnlock(s)
    \/ \E s \in Scanners : ScanEnd(s)
    \/ Consume

ScanSpecNext == ScanNext /\ UNCHANGED <<poolVars, env, credsVars, ioVars, rtVars, frontVars>>

SpecScan == CacheSpecInit /\ [][ScanSpecNext]_vars

(***************************************************************************)
(* Close, and the end of a scan next to it.  The scan sends its pulse      *)
(* outside the lock: it takes the value of ac.notify, then sends on it.    *)
(***************************************************************************)
MaxCloses == 2

\* the operand ac.notify of the send is evaluated
ScanReadsNotify(s) ==
    /\ scans[s].pc = "run"
    /\ scans[s].todo = <<>>
    /\ scans[s].unlocking = NoAccount
    /\ scans' = [scans EXCEPT ![s].pc = IF notifyField = "nil" THEN "sendnil" ELSE "send"]
    /\ UNCHANGED <<dir, fileC, All, ByAddr, unlocked, notify, nDir, nCalls, obs, seen, scanned,
                   findRes>>

\* the send of the select with default, after which the scan returns: on a
\* nil channel the default is taken, on a closed channel the send panics
ScanSendsNotify(s) ==
    /\ scans[s].pc \in {"send", "sendnil"}
    /\ IF scans[s].pc = "send" /\ closings > 0
       THEN /\ scans' = [scans EXCEPT ![s].pc = "panicked"]
            /\ UNCHANGED <<notify, scanned>>
       ELSE /\ notify' = IF scans[s].pc = "send" THEN pulse(notify) ELSE notify
            /\ scans' = [pulsedOthers(scans, s) EXCEPT ![s] = IdleScan]
            /\ scanned' = scannedAfter(scans[s].gen)
    /\ UNCHANGED <<dir, fileC, All, ByAddr, unlocked, nDir, nCalls, obs, seen, findRes>>

\* Close, under the lock: the channel is closed and the field set to nil,
\* unless the field is nil already
AccountCacheClose ==
    /\ closes < MaxCloses
    /\ closes' = closes + 1
    /\ closings' = IF notifyField # "nil" THEN closings + 1 ELSE closings
    /\ notifyField' = "nil"

CloseNext ==
    \/ DirChange /\ UNCHANGED closeVars
    \/ \E s \in Scanners : ScanBegin(s) /\ UNCHANGED closeVars
    \/ \E s \in Scanners : ScanStep(s) /\ UNCHANGED closeVars
    \/ \E s \in Scanners : ScanUnlock(s) /\ UNCHANGED closeVars
    \/ \E s \in Scanners : ScanReadsNotify(s) /\ UNCHANGED closeVars
    \/ \E s \in Scanners : ScanSendsNotify(s) /\ UNCHANGED closeVars
    \/ Consume /\ UNCHANGED closeVars
    \/ AccountCacheClose /\ UNCHANGED cacheVars

CloseSpecNext ==
    CloseNext /\ UNCHANGED <<poolVars, env, credsVars, ioVars, rtVars, reloadVars, streamVars,
                             rpcVars, keyVars>>

SpecClose == CacheSpecInit /\ [][CloseSpecNext]_vars

(***************************************************************************)
(* MaybeReload: the throttle timer, the watcher and the scans it starts.   *)
(* A timer holds at most one expiry in its channel; Reset re-arms it and   *)
(* leaves the channel as it is.                                            *)
(***************************************************************************)
MaxTime             == 5   \* seconds of time that pass
MaxReloadDirChanges == 1   \* changes of the directory while reloads are called

minReloadInterval == 2

\* time.NewTimer(0) at time t, by the time MaybeReload resets it: it has
\* expired into its channel already, or it has not
NewTimers(t) == {[made |-> TRUE, C |-> c, at |-> t] : c \in {0, 1}}

\* select { case <-ac.throttle.C: default: }: whether an expiry is there
\* to be taken
expired(tm) == tm.C = 1

\* the timer after the receive from its channel
drained(tm) == [tm EXCEPT !.C = 0]

\* ac.throttle.Reset(d) at time t
Reset(tm, t, d) == [tm EXCEPT !.at = t + d]

\* the timer's expiry: a send on its channel that is dropped when the
\* channel is full
fire(tm) == [tm EXCEPT !.C = 1, !.at = -1]

\* watcher.start(): the watcher's task is launched unless it is there
start(w) == IF w = "stopped" THEN "starting" ELSE w

ReloadInit ==
    /\ pkg = "manager"
    /\ PoolIdle
    /\ env = [name \in EnvNames |-> ""]
    /\ CredsIdle
    /\ IOIdle
    /\ RTIdle
    /\ CacheInit
    /\ FrontIdle

Tick ==
    /\ now < MaxTime
    /\ ~(throttle.at # -1 /\ throttle.at <= now)
    /\ now' = now + 1
    /\ UNCHANGED <<throttle, watcher, reloads, reloadRes, cacheVars>>

TimerFires ==
    /\ throttle.at # -1
    /\ throttle.at <= now
    /\ throttle' = fire(throttle)
    /\ UNCHANGED <<now, watcher, reloads, reloadRes, cacheVars>>

\* the watcher's task: it gets its watch on the directory and runs, or it
\* fails or ends and is gone
WatcherRuns ==
    /\ watcher = "starting"
    /\ watcher' = "running"
    /\ UNCHANGED <<now, throttle, reloads, reloadRes, cacheVars>>

WatcherEnds ==
    /\ watcher # "stopped"
    /\ watcher' = "stopped"
    /\ UNCHANGED <<now, throttle, reloads, reloadRes, cacheVars>>

\* MaybeReload while the watcher is running
ReloadWatched(s) ==
    /\ scans[s].pc = "idle"
    /\ watcher = "running"
    /\ reloadRes' = [at |-> now, did |-> "watched", first |-> reloadRes = NoIO]
    /\ UNCHANGED <<now, throttle, watcher, reloads, cacheVars>>

\* MaybeReload that finds the throttle timer not expired
ReloadThrottled(s) ==
    /\ scans[s].pc = "idle"
    /\ watcher # "running"
    /\ throttle.made
    /\ ~expired(throttle)
    /\ reloadRes' = [at |-> now, did |-> "throttled", first |-> reloadRes = NoIO]
    /\ UNCHANGED <<now, throttle, watcher, reloads, cacheVars>>

\* MaybeReload that goes on to scanAccounts: the timer is created or its
\* expiry is taken, the watcher is started, the timer is reset, and the
\* scan begins
ReloadScans(s) ==
    /\ watcher # "running"
    /\ \/ /\ ~throttle.made
          /\ \E tm \in NewTimers(now) : throttle' = Reset(tm, now, minReloadInterval)
       \/ /\ throttle.made
          /\ expired(throttle)
          /\ throttle' = Reset(drained(throttle), now, minReloadInterval)
    /\ watcher' = start(watcher)
    /\ reloads' = Append(reloads, now)
    /\ reloadRes' = [at |-> now, did |-> "scan", first |-> reloadRes = NoIO]
    /\ ScanBegin(s)
    /\ UNCHANGED now

ReloadDirChange ==
    /\ nDir < MaxReloadDirChanges
    /\ DirChange
    /\ UNCHANGED reloadVars

ReloadNext ==
    \/ Tick
    \/ TimerFires
    \/ WatcherRuns
    \/ WatcherEnds
    \/ \E s \in Scanners : ReloadWatched(s)
    \/ \E s \in Scanners : ReloadThrottled(s)
    \/ \E s \in Scanners : ReloadScans(s)
    \/ ReloadDirChange
    \/ \E s \in Scanners : ScanStep(s) /\ UNCHANGED reloadVars
    \/ \E s \in Scanners : ScanUnlock(s) /\ UNCHANGED reloadVars
    \/ \E s \in Scanners : ScanEnd(s) /\ UNCHANGED reloadVars

ReloadSpecNext ==
    ReloadNext /\ UNCHANGED <<poolVars, env, credsVars, ioVars, rtVars, streamVars, rpcVars, keyVars, closeVars>>

SpecReload == ReloadInit /\ [][ReloadSpecNext]_vars

(***************************************************************************)
(* GetEventStream.  The backend sends its wallet events to the channel     *)
(* am.events once for every subscription registered on it; a send on a     *)
(* full channel waits.  A stream handler takes the wallets, subscribes,    *)
(* sends the wallets to its caller and then forwards what it receives      *)
(* from the channel until a send to the caller fails.                      *)
(***************************************************************************)
MaxEvents       == 5   \* wallet events the backend produces for one stream
MaxStreamEvents == 3   \* wallet events the backend produces for several streams
MaxStreams      == 2   \* GetEventStream calls

NumVaults == 1

\* make(chan accounts.WalletEvent, 4*len(config.Vaults))
EventsCap == 4 * NumVaults

Streams == 1..MaxStreams

WalletURLs == {[Scheme |-> "hashiwlt", Path |-> "a"], [Scheme |-> "hashiwlt", Path |-> "b"]}

\* accounts.URL.String()
String(url) == url.Scheme \o "://" \o url.Path

\* accounts.WalletEventType
WalletArrived == 0
WalletOpened  == 1
WalletDropped == 2

\* asProtoWalletEvent that reports every event as an arrival
asProtoWalletEventArrived(event) ==
    [WalletEvent |-> "WALLET_ARRIVED", WalletUrl |-> String(event.URL)]

asProtoWalletEvent(event) ==
    [WalletEvent |-> IF event.Kind = WalletArrived THEN "WALLET_ARRIVED"
                     ELSE IF event.Kind = WalletOpened THEN "WALLET_OPENED"
                     ELSE IF event.Kind = WalletDropped THEN "WALLET_DROPPED"
                     ELSE "WALLET_ARRIVED",
     WalletUrl |-> String(event.URL)]

\* the event delivered for a wallet held when the stream is called
snapshotEvent(url) == [WalletEvent |-> "WALLET_ARRIVED", WalletUrl |-> String(url)]

IdleStream == [pc |-> "idle", held |-> {}, snap |-> <<>>, conn |-> TRUE]

StreamVarsInit ==
    /\ wallets = {}
    /\ events = <<>>
    /\ enq = <<>>
    /\ subs = {}
    /\ eventSubscription = 0
    /\ streams = [i \in Streams |-> IdleStream]
    /\ delivered = [i \in Streams |-> <<>>]

StreamInit ==
    /\ pkg = "manager"
    /\ PoolIdle
    /\ env = [name \in EnvNames |-> ""]
    /\ CredsIdle
    /\ IOIdle
    /\ RTIdle
    /\ CacheIdle
    /\ ReloadIdle
    /\ StreamVarsInit
    /\ rpcLog = <<>> /\ acctManager = 0
    /\ KeyIdle
    /\ CloseIdle

\* the copies of an event the feed puts on the channel: one for every
\* registered subscription
RECURSIVE copies(_, _)
copies(e, k) == IF k = 0 THEN <<>> ELSE <<e>> \o copies(e, k - 1)

\* the feed's Send: it returns when every subscription has the event on
\* its channel
CanSend == Len(events) + Cardinality(subs) <= EventsCap

Send(kind, url) ==
    /\ Len(enq) < MaxEvents
    /\ CanSend
    /\ events' = events \o copies([Kind |-> kind, URL |-> url, n |-> Len(enq) + 1],
                                  Cardinality(subs))
    /\ enq' = Append(enq, [Kind |-> kind, URL |-> url])

WalletArrives ==
    /\ \E url \in WalletURLs \ wallets :
          /\ wallets' = wallets \cup {url}
          /\ Send(WalletArrived, url)
    /\ UNCHANGED <<subs, eventSubscription, streams, delivered>>

WalletOpens ==
    /\ \E url \in wallets : Send(WalletOpened, url)
    /\ UNCHANGED <<wallets, subs, eventSubscription, streams, delivered>>

WalletDrops ==
    /\ \E url \in wallets :
          /\ wallets' = wallets \ {url}
          /\ Send(WalletDropped, url)
    /\ UNCHANGED <<subs, eventSubscription, streams, delivered>>

\* wallets := am.Wallets()
StreamCalled(i) ==
    /\ streams[i].pc = "idle"
    /\ \E q \in ToSlice(wallets) :
          streams' = [streams EXCEPT ![i] = [pc |-> "called", held |-> wallets, snap |-> q,
                                             conn |-> TRUE]]
    /\ UNCHANGED <<wallets, events, enq, subs, eventSubscription, delivered>>

\* am.eventSubscription = am.HashicorpVaultAccountManager.Subscribe(am.events)
StreamSubscribes(i) ==
    /\ streams[i].pc = "called"
    /\ subs' = subs \cup {i}
    /\ eventSubscription' = i
    /\ streams' = [streams EXCEPT ![i].pc = "snapshot"]
    /\ UNCHANGED <<wallets, events, enq, delivered>>

\* the deferred function of the handler: the subscription the field holds
\* is cancelled and the field is cleared; on a nil field the call panics
returned(i) ==
    /\ subs' = subs \ {eventSubscription}
    /\ eventSubscription' = 0
    /\ streams' = [streams EXCEPT ![i].pc = IF eventSubscription = 0 THEN "panicked"
                                            ELSE "returned"]

\* one turn of the loop over the wallets
StreamSendsWallet(i) ==
    /\ streams[i].pc = "snapshot"
    /\ streams[i].snap # <<>>
    /\ IF streams[i].conn
       THEN /\ delivered' = [delivered EXCEPT ![i] = Append(@, [ev |-> snapshotEvent(Head(streams[i].snap)),
                                                       n |-> 0])]
            /\ streams' = [streams EXCEPT ![i].snap = Tail(@)]
            /\ UNCHANGED <<subs, eventSubscription>>
       ELSE /\ returned(i)
            /\ UNCHANGED delivered
    /\ UNCHANGED <<wallets, events, enq>>

\* the loop over the wallets is done
StreamGoesLive(i) ==
    /\ streams[i].pc = "snapshot"
    /\ streams[i].snap = <<>>
    /\ streams' = [streams EXCEPT ![i].pc = "live"]
    /\ UNCHANGED <<wallets, events, enq, subs, eventSubscription, delivered>>

\* one turn of the loop over the channel: receive, convert, send
StreamForwards(i) ==
    /\ streams[i].pc = "live"
    /\ events # <<>>
    /\ events' = Tail(events)
    /\ IF streams[i].conn
       THEN /\ delivered' = [delivered EXCEPT ![i] = Append(@, [ev |-> asProtoWalletEvent(Head(events)),
                                                       n |-> Head(events).n])]
            /\ UNCHANGED <<subs, eventSubscription, streams>>
       ELSE /\ returned(i)
            /\ UNCHANGED delivered
    /\ UNCHANGED <<wallets, enq>>

\* the caller of the stream goes away: sends to it fail from now on
Disconnect(i) ==
    /\ streams[i].pc \in {"called", "snapshot", "live"}
    /\ streams[i].conn
    /\ streams' = [streams EXCEPT ![i].conn = FALSE]
    /\ UNCHANGED <<wallets, events, enq, subs, eventSubscription, delivered>>

\* the steps of the handler of stream i
StreamStep(i) ==
    \/ StreamSubscribes(i)
    \/ StreamSendsWallet(i)
    \/ StreamGoesLive(i)
    \/ StreamForwards(i)

\* the backend's events while several streams are called
FewEvents == Len(enq) < MaxStreamEvents

StreamNext ==
    \/ FewEvents /\ WalletArrives
    \/ FewEvents /\ WalletOpens
    \/ FewEvents /\ WalletDrops
    \/ \E i \in Streams : StreamCalled(i)
    \/ \E i \in Streams : StreamSubscribes(i)
    \/ \E i \in Streams : StreamSendsWallet(i)
    \/ \E i \in Streams : StreamGoesLive(i)
    \/ \E i \in Streams : StreamForwards(i)
    \/ \E i \in Streams : Disconnect(i)

StreamSpecNext ==
    StreamNext /\ UNCHANGED <<poolVars, env, credsVars, ioVars, rtVars, cacheVars, reloadVars, rpcVars, keyVars, closeVars>>

SpecStream == StreamInit /\ [][StreamSpecNext]_vars

\* One stream and the backend's events.
BusNext ==
    \/ WalletArrives
    \/ WalletOpens
    \/ WalletDrops
    \/ StreamCalled(1)
    \/ StreamSubscribes(1)
    \/ StreamSendsWallet(1)
    \/ StreamGoesLive(1)
    \/ StreamForwards(1)
    \/ Disconnect(1)

BusSpecNext ==
    BusNext /\ UNCHANGED <<poolVars, env, credsVars, ioVars, rtVars, cacheVars, reloadVars, rpcVars, keyVars, closeVars>>

SpecBus == StreamInit /\ [][BusSpecNext]_vars

\* the handler takes its steps
BusStep ==
    StreamStep(1) /\ UNCHANGED <<poolVars, env, credsVars, ioVars, rtVars, cacheVars, reloadVars, rpcVars, keyVars, closeVars>>

SpecBusFair == SpecBus /\ WF_vars(BusStep)

(***************************************************************************)
(* The request/response operations of the delegate and the plugin's Init.  *)
(* A call is logged with its request, its result and, for Init, the steps  *)
(* it took.  The backend, the wallets and the libraries answer each call   *)
(* with nil or with an error.                                              *)
(***************************************************************************)
MaxRPC == 2

AddressLength == 20

\* what a call into the backend, a wallet or a library returns
Outcomes == {"nil", "err"}

\* the results of a handler
OK == [class |-> "nil", code |-> ""]
Panic == [class |-> "panic", code |-> ""]
\* status.Error(code, err.Error())
statusError(code) == [class |-> "status", code |-> code]
\* an error of a library, returned as it is
plainError == [class |-> "plain", code |-> ""]

\* req.Account: absent, or an address of some number of bytes and a URL
NilAccount == [nil |-> TRUE, Address |-> <<>>, Url |-> ""]
ProtoAccount(n, url) == [nil |-> FALSE, Address |-> [i \in 1..n |-> 0], Url |-> url]
ProtoAccounts ==
    {NilAccount} \cup {ProtoAccount(n, url) : n \in {AddressLength - 1, AddressLength},
                                              url \in {"hashiwlt://a", "::"}}

\* req.NewVaultAccount: absent or present
NewVaultAccounts == {[nil |-> TRUE, VaultAddress |-> ""], [nil |-> FALSE, VaultAddress |-> "vault"]}

NoRequest == [Account |-> NilAccount, NewVaultAccount |-> [nil |-> TRUE, VaultAddress |-> ""],
              RawConfiguration |-> [json |-> FALSE, valid |-> FALSE, accepted |-> FALSE]]

\* common.Bytes2Hex: two digits for every byte
Bytes2Hex(b) == [i \in 1..(2 * Len(b)) |-> 0]

\* common.IsHexAddress, on a string of hex digits without prefix
IsHexAddress(s) == Len(s) = 2 * AddressLength

\* utils.ToUrl
ToUrl(url) == IF url = "::" THEN "err" ELSE "nil"

\* asAccount: the field of a nil message is read
asAccount(pAcct) ==
    IF pAcct.nil THEN "panic"
    ELSE IF ~IsHexAddress(Bytes2Hex(pAcct.Address)) THEN "err"
    ELSE ToUrl(pAcct.Url)

Reply(op, req, res, steps) ==
    /\ Len(rpcLog) < MaxRPC
    /\ rpcLog' = Append(rpcLog, [op |-> op, req |-> req, res |-> res, steps |-> steps])
    /\ UNCHANGED acctManager

\* a handler that asks the backend for the wallet and calls it
WalletCall(op) ==
    \E wallet \in Outcomes, call \in Outcomes :
        Reply(op, NoRequest,
              IF wallet = "err" THEN statusError("Internal")
              ELSE IF call = "err" THEN statusError("Internal")
              ELSE OK, {})

Status == WalletCall("Status")

Open == WalletCall("Open")

Close == WalletCall("Close")

\* Accounts: w.Accounts() returns no error
Accounts ==
    \E wallet \in Outcomes :
        Reply("Accounts", NoRequest,
              IF wallet = "err" THEN statusError("Internal") ELSE OK, {})

\* Contains: w.Contains returns no error
Contains ==
    \E wallet \in Outcomes, pAcct \in ProtoAccounts :
        Reply("Contains", [NoRequest EXCEPT !.Account = pAcct],
              IF wallet = "err" THEN statusError("Internal")
              ELSE IF asAccount(pAcct) = "panic" THEN Panic
              ELSE IF asAccount(pAcct) = "err" THEN statusError("Internal")
              ELSE OK, {})

\* SignHash and SignHashWithPassphrase
SignHashCall(op) ==
    \E wallet \in Outcomes, pAcct \in ProtoAccounts, sign \in Outcomes :
        Reply(op, [NoRequest EXCEPT !.Account = pAcct],
              IF wallet = "err" THEN statusError("Internal")
              ELSE IF asAccount(pAcct) = "panic" THEN Panic
              ELSE IF asAccount(pAcct) = "err" THEN statusError("Internal")
              ELSE IF sign = "err" THEN statusError("Internal")
              ELSE OK, {})

SignHash == SignHashCall("SignHash")

SignHashWithPassphrase == SignHashCall("SignHashWithPassphrase")

\* SignTx and SignTxWithPassphrase: the transaction is decoded, signed and
\* encoded again
SignTxCall(op) ==
    \E wallet \in Outcomes, pAcct \in ProtoAccounts, decode \in Outcomes, sign \in Outcomes,
       encode \in Outcomes :
        Reply(op, [NoRequest EXCEPT !.Account = pAcct],
              IF wallet = "err" THEN statusError("Internal")
              ELSE IF asAccount(pAcct) = "panic" THEN Panic
              ELSE IF asAccount(pAcct) = "err" THEN statusError("Internal")
              ELSE IF decode = "err" THEN statusError("Internal")
              ELSE IF sign = "err" THEN statusError("Internal")
              ELSE IF encode = "err" THEN plainError
              ELSE OK, {})

SignTx == SignTxCall("SignTx")

SignTxWithPassphrase == SignTxCall("SignTxWithPassphrase")

\* TimedUnlock and Lock
AccountCall(op) ==
    \E pAcct \in ProtoAccounts, call \in Outcomes :
        Reply(op, [NoRequest EXCEPT !.Account = pAcct],
              IF asAccount(pAcct) = "panic" THEN Panic
              ELSE IF asAccount(pAcct) = "err" THEN statusError("Internal")
              ELSE IF call = "err" THEN statusError("Internal")
              ELSE OK, {})

TimedUnlock == AccountCall("TimedUnlock")

Lock == AccountCall("Lock")

\* NewAccount: req.NewVaultAccount.VaultAddress is read first
NewAccount ==
    \E nva \in NewVaultAccounts, creator \in Outcomes, create \in Outcomes :
        Reply("NewAccount", [NoRequest EXCEPT !.NewVaultAccount = nva],
              IF nva.nil THEN Panic
              ELSE IF creator = "err" THEN statusError("Internal")
              ELSE IF create = "err" THEN statusError("Internal")
              ELSE OK, {})

ImportRawKey ==
    \E nva \in NewVaultAccounts, creator \in Outcomes, key \in Outcomes, create \in Outcomes :
        Reply("ImportRawKey", [NoRequest EXCEPT !.NewVaultAccount = nva],
              IF nva.nil THEN Panic
              ELSE IF creator = "err" THEN statusError("Internal")
              ELSE IF key = "err" THEN statusError("Internal")
              ELSE IF create = "err" THEN statusError("Internal")
              ELSE OK, {})

\* the raw configuration of an Init request: whether its bytes are JSON,
\* whether the configuration they describe is a valid one, and whether the
\* vault it names accepts the credentials
RawConfigurations == [json : BOOLEAN, valid : BOOLEAN, accepted : BOOLEAN]

\* json.Unmarshal(data, v): the syntax of the data is checked first; a v that
\* is not a pointer is refused
Unmarshal(data, pointer) ==
    IF ~data.json THEN "err"
    ELSE IF ~pointer THEN "err"
    ELSE "nil"

\* conf.Validate(), on the configuration decoded from the data
Validate(data) == IF data.valid THEN "nil" ELSE "err"

\* Init, with the account manager built before the configuration is looked at
PluginInitConnectsFirst(data, manager) ==
    IF Unmarshal(data, FALSE) = "err"
    THEN [res |-> statusError("InvalidArgument"), steps |-> {"connected"}]
    ELSE IF Validate(data) = "err"
    THEN [res |-> statusError("InvalidArgument"), steps |-> {"connected", "decoded"}]
    ELSE IF manager = "err"
    THEN [res |-> statusError("InvalidArgument"), steps |-> {"connected", "decoded", "validated"}]
    ELSE [res |-> OK, steps |-> {"connected", "decoded", "validated"}]

\* HashicorpPlugin.Init: conf is handed to json.Unmarshal as a value
PluginInit(data, manager) ==
    IF Unmarshal(data, FALSE) = "err"
    THEN [res |-> statusError("InvalidArgument"), steps |-> {}]
    ELSE IF Validate(data) = "err"
    THEN [res |-> statusError("InvalidArgument"), steps |-> {"decoded"}]
    ELSE IF manager = "err"
    THEN [res |-> statusError("InvalidArgument"), steps |-> {"decoded", "validated", "connected"}]
    ELSE [res |-> OK, steps |-> {"decoded", "validated", "connected"}]

\* hashicorp.NewAccountManager(conf)
NewAccountManager(data) == IF data.accepted THEN "nil" ELSE "err"

\* p.acctManager = am in Init, whose receiver p is a copy of the plugin: the
\* plugin's field keeps its value
assigned(field, am) == field

HashicorpPluginInit ==
    \E data \in RawConfigurations :
        LET out == PluginInit(data, NewAccountManager(data)) IN
        /\ Len(rpcLog) < MaxRPC
        /\ rpcLog' = Append(rpcLog, [op |-> "Init",
                                     req |-> [NoRequest EXCEPT !.RawConfiguration = data],
                                     res |-> out.res, steps |-> out.steps])
        /\ acctManager' = IF out.res = OK THEN assigned(acctManager, Len(rpcLog) + 1)
                                          ELSE acctManager

RPCNext ==
    \/ HashicorpPluginInit
    \/ Status
    \/ Open
    \/ Close
    \/ Accounts
    \/ Contains
    \/ SignHash
    \/ SignTx
    \/ SignHashWithPassphrase
    \/ SignTxWithPassphrase
    \/ TimedUnlock
    \/ Lock
    \/ NewAccount
    \/ ImportRawKey

RPCSpecNext ==
    RPCNext /\ UNCHANGED <<poolVars, env, credsVars, ioVars, rtVars, cacheVars, reloadVars, streamVars, keyVars, closeVars>>

RPCInit ==
    /\ pkg = "manager"
    /\ PoolIdle
    /\ env = [name \in EnvNames |-> ""]
    /\ CredsIdle
    /\ IOIdle
    /\ RTIdle
    /\ CacheIdle
    /\ FrontIdle

SpecRPC == RPCInit /\ [][RPCSpecNext]_vars

(***************************************************************************)
(* GetKey: the account file is read and decoded, the secret it names is    *)
(* fetched from the vault and parsed as a private key.                     *)
(***************************************************************************)
\* the addresses of the accounts asked for, written in files and derived
\* from the keys in the vault
KeyAddresses == {1, 2, 3}

\* what ioutil.ReadFile and json.Unmarshal make of the file: it cannot be read,
\* it is not JSON, it decodes to the zero AccountConfig, or it decodes to an
\* AccountConfig whose Address is or is not a hex address
KeyFiles ==
    {[kind |-> k, hex |-> FALSE, Address |-> 1] : k \in {"unreadable", "notjson", "zero"}}
    \cup [kind : {"conf"}, hex : BOOLEAN, Address : KeyAddresses]

\* what the vault holds for the secret: the read fails, the secret is no hex
\* key, or it is the key of some address
KeySecrets ==
    {[kind |-> k, derives |-> 1] : k \in {"err", "nothex"}}
    \cup [kind : {"key"}, derives : KeyAddresses]

KeyError == [err |-> "err", Address |-> ZeroAddress]

\* crypto.HexToECDSA of the secret, and crypto.PubkeyToAddress of its key
keyOf(secret) ==
    IF secret.kind = "err" THEN KeyError
    ELSE IF secret.kind = "nothex" THEN KeyError
    ELSE [err |-> "nil", Address |-> secret.derives]

\* GetKey of package p
GetKey(p, addr, file, secret) ==
    IF file.kind \in {"unreadable", "notjson", "zero"} THEN KeyError
    ELSE IF p = "manager" /\ ~file.hex THEN KeyError
    ELSE IF p = "manager" /\ file.Address # addr THEN KeyError
    ELSE keyOf(secret)

GetKeyCall ==
    \E addr \in KeyAddresses, file \in KeyFiles, secret \in KeySecrets :
        /\ keyCall' = [addr |-> addr, file |-> file, secret |-> secret,
                       res |-> GetKey(pkg, addr, file, secret)]
        /\ UNCHANGED storeCall

KeySpecNext ==
    GetKeyCall /\ UNCHANGED <<poolVars, env, credsVars, ioVars, rtVars, cacheVars, reloadVars,
                              streamVars, rpcVars, closeVars>>

\* either package's manager, before any call
KeyInit ==
    /\ PoolIdle
    /\ env = [name \in EnvNames |-> ""]
    /\ CredsIdle
    /\ IOIdle
    /\ RTIdle
    /\ CacheIdle
    /\ FrontIdle

SpecGetKey == KeyInit /\ [][KeySpecNext]_vars

(***************************************************************************)
(* StoreKey: the key is written to the vault, then the account's metadata  *)
(* is written to the file.                                                 *)
(***************************************************************************)
\* the file at filename: absent, or an AccountConfig with a secret version
NoFile == [exists |-> FALSE, SecretVersion |-> 0]
MetaFiles == {NoFile, [exists |-> TRUE, SecretVersion |-> 7]}

\* how storeInFile ends: json.Marshal, writeTemporaryKeyFile or os.Rename
\* fails, or the file is in place
FileOutcomes == {"marshal", "temporary", "rename", "nil"}

\* the file after storeInFile: it is replaced by the rename only
storeInFile(before, acctConfig, outcome) ==
    IF outcome = "nil" THEN [exists |-> TRUE, SecretVersion |-> acctConfig.SecretVersion]
    ELSE before

\* the version written to the file, taken from the request
requestVersion(cfg, secretVersion) == cfg.version

\* vaultConfig.PathParams.SecretVersion = secretVersion
SecretVersion(cfg, secretVersion) == secretVersion

StoreKey(cl, cfg, resp, before, outcome, toAccount) ==
    LET v == storeInVault(cl, cfg, resp)
        acctConfig == [SecretVersion |-> SecretVersion(cfg, v.version)]
        res(err, uri, errUri, after) ==
            [err |-> err, uri |-> uri, errUri |-> errUri, panic |-> FALSE, after |-> after]
    IN  IF v.panic THEN [res("none", "", "", before) EXCEPT !.panic = TRUE]
        ELSE IF v.err # "nil" THEN res(v.err, "", v.errUri, before)
        ELSE IF outcome # "nil"
        THEN res("unable to write data to file", "", v.uri,
                 storeInFile(before, acctConfig, outcome))
        ELSE IF toAccount = "err"
        THEN res("unable to parse as account", "", v.uri,
                 storeInFile(before, acctConfig, outcome))
        ELSE res("nil", v.uri, "", storeInFile(before, acctConfig, outcome))

StoreKeyCall ==
    /\ storeCall = NoIO
    /\ \E cfg \in SecretConfigs, resp \in WriteResponses, before \in MetaFiles,
          outcome \in FileOutcomes, toAccount \in Outcomes :
          storeCall' = [cfg |-> cfg,
                        resp |-> IF lookup(clients, cfg.authID) = 0 THEN WriteNotSent ELSE resp,
                        before |-> before, outcome |-> outcome,
                        res |-> StoreKey(clients, cfg, resp, before, outcome, toAccount)]
    /\ UNCHANGED keyCall

StoreSpecNext ==
    StoreKeyCall /\ UNCHANGED <<poolVars, env, credsVars, ioVars, rtVars, cacheVars, reloadVars,
                                streamVars, rpcVars, closeVars>>

\* package manager's pool, every auth-ID of the configuration with a token
StoreInit == IOInit /\ pkg = "manager"

SpecStore == StoreInit /\ [][StoreSpecNext]_vars

(***************************************************************************)
(* Find, on a cache built by direct Add, delete and deleteByFile calls.    *)
(***************************************************************************)
MaxFindSetup == 3   \* direct calls that build and later change the cache

\* Limit search to address candidates if possible.  Here: never limited
candidatesAll(c, a) == c.All

candidates(c, a) ==
    IF a.Address # ZeroAddress THEN Lookup(c.ByAddr, a.Address) ELSE c.All

\* If only the basename is specified, complete the path.  Here: never
\* completed
completePathNever(a) == a.URL

completePath(a) ==
    IF a.URL.Path # <<>> /\ ~ContainsSeparator(a.URL.Path)
    THEN [Scheme |-> a.URL.Scheme, Path |-> Join(keydir, a.URL.Path)]
    ELSE a.URL

\* sort.Sort(vault.AccountsByURL(...)): an insertion sort for lists this short
RECURSIVE SortByURL(_)
SortByURL(slice) ==
    IF slice = <<>> THEN <<>>
    ELSE LET rest == SortByURL(Tail(slice))
             i    == Cardinality({ h \in 1..Len(rest) : Cmp(rest[h].URL, Head(slice).URL) < 0 })
         IN  InsertAt(rest, i, Head(slice))

\* err.Matches, the cache after it was built, and whether the two share
\* their array.  Here: the candidate list itself is sorted, not a copy of it
ambiguousInPlace(c, a, matches) ==
    [matches |-> SortByURL(matches),
     cache |-> IF a.Address # ZeroAddress
               THEN [c EXCEPT !.ByAddr = Put(c.ByAddr, a.Address, SortByURL(matches))]
               ELSE [c EXCEPT !.All = SortByURL(matches)],
     shared |-> TRUE]

\* the sorted list is a copy (make and copy), so the cache is as before and
\* shares nothing with the list
ambiguous(c, a, matches) ==
    [matches |-> SortByURL(matches), cache |-> c, shared |-> FALSE]

Find(c, a) ==
    LET matches == candidates(c, a)
        url     == completePath(a)
        hits    == { i \in 1..Len(matches) : matches[i].URL = url }
        res(acct, err) == [acct |-> acct, err |-> err, matches |-> <<>>, cache |-> c,
                           shared |-> FALSE]
    IN  IF a.URL.Path # <<>> /\ hits # {}
        THEN res(matches[CHOOSE i \in hits : \A j \in hits : i <= j], "nil")
        ELSE IF a.URL.Path # <<>> /\ a.Address = ZeroAddress
        THEN res(NoAccount, "ErrNoMatch")
        ELSE IF Len(matches) = 1
        THEN res(matches[1], "nil")
        ELSE IF Len(matches) = 0
        THEN res(NoAccount, "ErrNoMatch")
        ELSE [acct |-> NoAccount, err |-> "AmbiguousAddrError",
              matches |-> ambiguous(c, a, matches).matches,
              cache |-> ambiguous(c, a, matches).cache,
              shared |-> ambiguous(c, a, matches).shared]

\* The array of a slice after removeAccount took elem out of it: append
\* moves the later elements down inside the same array, whose last slot
\* keeps its value.
removeInPlace(slice, elem) ==
    IF \E i \in 1..Len(slice) : slice[i] = elem
    THEN LET i == CHOOSE h \in 1..Len(slice) :
                     slice[h] = elem /\ \A j \in 1..(h - 1) : slice[j] # elem
         IN  [h \in 1..Len(slice) |->
                 IF h < i \/ h = Len(slice) THEN slice[h] ELSE slice[h + 1]]
    ELSE slice

\* The account a delete or deleteByFile call takes out of the cache.
removedBy(c, op, a) ==
    LET n == Len(c.All)
        i == Search([h \in 1..n |-> Compare(c.All[h].URL.Path, a.URL.Path) >= 0])
    IN  IF op = "delete" THEN a
        ELSE IF op = "deleteByFile" /\ i < n /\ c.All[i + 1].URL.Path = a.URL.Path
        THEN c.All[i + 1]
        ELSE NoAccount

\* A list handed out by an earlier Find, after a later call on the cache: a
\* list that shares its array with the cache sees the removal.
handedOut(res, c, op, a) ==
    IF res # NoIO /\ res.shared /\ removedBy(c, op, a) # NoAccount
       /\ (res.arg.Address = ZeroAddress \/ res.arg.Address = removedBy(c, op, a).Address)
    THEN [res EXCEPT !.matches = removeInPlace(res.matches, removedBy(c, op, a))]
    ELSE res

\* The accounts the cache is built from: those of the direct calls, and one
\* whose path is a bare file name.
FindAccounts == CallAccounts \cup {AsAccount(<<"a">>, 1)}

\* The account specifiers Find is called with.
FindArgs ==
    [Address : {ZeroAddress} \cup Addresses,
     URL : [Scheme : {KeyStoreScheme, <<>>},
            Path : {<<>>, <<"a">>, <<"/", "x", "/", "a">>} \cup Files]]

FindInit ==
    /\ pkg = "manager"
    /\ PoolIdle
    /\ env = [name \in EnvNames |-> ""]
    /\ CredsIdle
    /\ IOIdle
    /\ RTIdle
    /\ CacheInit
    /\ FrontIdle

FindSetup ==
    /\ nCalls < MaxFindSetup
    /\ \E a \in FindAccounts, op \in {"Add", "delete", "deleteByFile"} :
          LET c    == [All |-> All, ByAddr |-> ByAddr]
              next == IF op = "Add" THEN Add(c, a)
                      ELSE IF op = "delete" THEN delete(c, a)
                      ELSE deleteByFile(c, a.URL.Path)
          IN  /\ All' = next.All
              /\ ByAddr' = next.ByAddr
              /\ findRes' = handedOut(findRes, c, op, a)
    /\ nCalls' = nCalls + 1
    /\ UNCHANGED <<dir, fileC, scans, unlocked, notify, nDir, obs, seen, scanned>>

FindCall ==
    /\ findRes = NoIO
    /\ \E a \in FindArgs :
          LET c == [All |-> All, ByAddr |-> ByAddr]
              r == Find(c, a)
          IN  /\ findRes' = [arg |-> a, pre |-> c, acct |-> r.acct, err |-> r.err,
                             matches |-> r.matches, shared |-> r.shared]
              /\ All' = r.cache.All
              /\ ByAddr' = r.cache.ByAddr
    /\ UNCHANGED <<dir, fileC, scans, unlocked, notify, nDir, nCalls, obs, seen, scanned>>

FindNext == (FindSetup \/ FindCall) /\ UNCHANGED <<poolVars, env, credsVars, ioVars, rtVars, frontVars>>

SpecFind == FindInit /\ [][FindNext]_vars

(***************************************************************************)
(* Claims about the session pool, checked under Spec.                      *)
(***************************************************************************)
AppRoleSessions == { s \in Sessions : sess[s].made /\ sess[s].approle }

HasRenewTask(s) == sess[s].pc # "none"

\* C1: the token installed on an AppRole session is always the token of the
\* session's most recent login or a token that was renewed since its issue;
\* it is never cleared, also not by a failed re-authentication.
C1_TokenIssuedOrRenewed ==
    \A s \in AppRoleSessions :
        \/ sess[s].token = VaultToken(sess[s].lastIssued)
        \/ sess[s].token.src = "vault" /\ sess[s].token.n \in renewed

\* C2: after a termination of the driver (with or without error) the task
\* logs in again, installs the new token and restarts the driver on the new
\* lease: a running driver always works on the lease of the latest login,
\* whose token is the one installed.
C2_DriverRunsOnLatestLease ==
    \A s \in AppRoleSessions :
        sess[s].drv = "running" =>
            /\ sess[s].drvLease = sess[s].lastIssued
            /\ sess[s].token = VaultToken(sess[s].lastIssued)

\* C3: every re-authentication attempt that follows a failed attempt was
\* preceded by the fixed wait of reauthRetryInterval.
C3_RetryAfterFixedWait ==
    \A s \in AppRoleSessions :
        sess[s].attAfterFail => sess[s].attWaited = reauthRetryInterval

Declared == { config[i] : i \in 1..Len(config) }

\* C4: once the pool is returned, the lookup of every declared auth-ID finds
\* a session in every state, whatever the renewal task is doing; the map is
\* never modified again; a read is dispatched with the token installed at
\* that moment.
C4_LookupTotal ==
    mgr = "ready" =>
        \A a \in Declared :
            /\ lookup(clients, a) # 0
            /\ sess[lookup(clients, a)].made
            /\ sess[lookup(clients, a)].auth = a

C4_ReadStep ==
    lastRead' # lastRead =>
        /\ lastRead'.auth \in Declared => lastRead'.found
        /\ lastRead'.found => lastRead'.token = sess[clients[lastRead'.auth]].token

C4_SessionAlwaysServes ==
    /\ []C4_LookupTotal
    /\ [][mgr = "ready" => clients' = clients]_vars
    /\ [][C4_ReadStep]_vars

\* C4 witness: a read dispatched while the session is re-authenticating or
\* waiting in back-off.
C4_Witness ==
    /\ lastRead.found
    /\ lastRead.pc \in {"reauth", "sleep"}
    /\ lastRead.token.src = "vault"

\* A session exists when the pool holds it or its renewal task runs.
SessionExists(s) ==
    sess[s].made /\ (clients[sess[s].auth] = s \/ HasRenewTask(s))

\* C5: after newVaultClientManager has returned the pool, at most one
\* session exists for each auth-ID.
C5_OneSessionPerAuthID ==
    mgr = "ready" =>
        \A a \in AuthIDs :
            Cardinality({ s \in Sessions : SessionExists(s) /\ sess[s].auth = a }) <= 1

\* The entries of config.Auth for which newAuthenticatedClient returned an error.
AuthFailed == { i \in 1..built : ~sess[i].made }

\* C6: if authentication fails for one auth config, the constructor returns
\* an error and no pool, whatever the other configs and their order.
C6_AnyAuthFailureIsFatal ==
    AuthFailed # {} => mgr = "failed" /\ clients = NoClients

\* C6 witness: the second config fails after the first one authenticated.
C6_Witness ==
    /\ mgr = "failed"
    /\ AuthFailed = {2}
    /\ sess[1].made

\* C8: a session has a renewal task exactly if it authenticated by AppRole
\* and the lease of its login is renewable; without one it never logs in again.
C8_RenewTaskIffRenewable ==
    \A s \in Sessions :
        sess[s].made =>
            /\ HasRenewTask(s) <=> (sess[s].approle /\ sess[s].firstLease \in renewable)
            /\ ~HasRenewTask(s) => sess[s].lastIssued = sess[s].firstLease

(***************************************************************************)
(* Claims about getAuthCredentials, checked under SpecCreds.               *)
(***************************************************************************)
RoleIDSet   == env[applyPrefix(credsArg, DefaultRoleIDEnv)] # ""
SecretIDSet == env[applyPrefix(credsArg, DefaultSecretIDEnv)] # ""
TokenSet    == env[applyPrefix(credsArg, DefaultTokenEnv)] # ""

CredsCalled == credsRes.err # "none"

\* C7 as stated: success exactly if the token is set or both role-id and
\* secret-id are set; the no-credentials error if nothing is set, the
\* incomplete-AppRole error otherwise.
C7_SucceedsIffTokenOrBoth ==
    CredsCalled =>
        /\ credsRes.err = "nil" <=> (TokenSet \/ (RoleIDSet /\ SecretIDSet))
        /\ credsRes.err = "noHashicorpEnvSetErr" <=> (~TokenSet /\ ~RoleIDSet /\ ~SecretIDSet)
        /\ credsRes.err \in {"nil", "noHashicorpEnvSetErr", "invalidApproleAuthErr"}

\* C7 amended: success exactly if role-id and secret-id are both set, or
\* both unset with the token set; the no-credentials error if nothing is
\* set; the incomplete-AppRole error if exactly one of role-id and secret-id
\* is set, whether or not the token is set.  On success the credentials
\* returned are the values of the three variables of that auth-ID.
C7_SucceedsIffNoHalfAppRole ==
    CredsCalled =>
        /\ credsRes.err = "nil" <=>
              \/ RoleIDSet /\ SecretIDSet
              \/ ~RoleIDSet /\ ~SecretIDSet /\ TokenSet
        /\ credsRes.err = "noHashicorpEnvSetErr" <=> (~TokenSet /\ ~RoleIDSet /\ ~SecretIDSet)
        /\ credsRes.err = "invalidApproleAuthErr" <=> (RoleIDSet # SecretIDSet)
        /\ credsRes.err = "nil" =>
              credsRes.creds = [roleID   |-> env[applyPrefix(credsArg, DefaultRoleIDEnv)],
                                secretID |-> env[applyPrefix(credsArg, DefaultSecretIDEnv)],
                                token    |-> env[applyPrefix(credsArg, DefaultTokenEnv)]]

\* C7 witness: a token and half of an AppRole pair are set, and the call failed.
C7_Witness ==
    /\ credsRes.err = "invalidApproleAuthErr"
    /\ TokenSet
    /\ credsArg # ""

(***************************************************************************)
(* Claims about vault reads and writes, checked under SpecIO.              *)
(***************************************************************************)
ReadDone  == ioRes.op = "read"
WriteDone == ioRes.op = "write"

\* The response's data is a mapping with exactly one pair, whose value is a string.
OneStringPair(resp) ==
    /\ resp.kind = "secret"
    /\ resp.dtype = "map"
    /\ \E k \in SecretKeys : DOMAIN resp.m = {k} /\ resp.m[k].type = "string"

\* C9: getSecretFromVault returns a value exactly if the response's data is
\* a mapping with exactly one pair whose value is a string, and then that
\* string, whatever the key; in every other case an error and no value.
C9_ValueIffOneStringPair ==
    ReadDone =>
        /\ ioRes.err = "nil" <=> OneStringPair(ioResp)
        /\ OneStringPair(ioResp) => \A k \in DOMAIN ioResp.m : ioRes.secret = ioResp.m[k].v
        /\ ~OneStringPair(ioResp) => ioRes.secret = ""

\* C9 witness: a response with two pairs was refused.
C9_Witness ==
    /\ ReadDone
    /\ ioResp.kind = "secret"
    /\ DOMAIN ioResp.m = SecretKeys
    /\ ioRes.err # "nil"
    /\ ioRes.secret = ""

\* The version of the response is a json.Number that is a decimal integer.
IntegerVersion(resp) ==
    /\ resp.kind = "secret"
    /\ resp.vtype = "number"
    /\ LET t == resp.vtext
           b == IF t # <<>> /\ Head(t) = "-" THEN Tail(t) ELSE t
       IN  b # <<>> /\ \A i \in 1..Len(b) : IsDigit(b[i])

WriteAccepted == WriteDone /\ ioResp.kind \in {"nil", "secret"}

SecretUri == VaultAddr \o "/v1/" \o ioReq.engine \o "/data/" \o ioReq.path

WriteOutcomeAsClaimed ==
    IF IntegerVersion(ioResp)
    THEN /\ ioRes.err = "nil"
         /\ ioRes.version = ParseInt(ioResp.vtext).v
         /\ ioRes.uri = SecretUri \o "?version=" \o FormatInt(ioRes.version)
    ELSE /\ ~ioRes.panic
         /\ ioRes.err \notin {"nil", "none"}
         /\ ioRes.errUri = SecretUri
         /\ ioRes.version = 0
         /\ ioRes.uri = ""

\* C10: when a write is accepted and the response carries no version or a
\* version that is not an integer, storeInVault returns an error carrying
\* the URI of the secret and no version; with an integer version v it
\* returns v and a URI ending in ?version=v.
C10_AcceptedWriteVersion == WriteAccepted => WriteOutcomeAsClaimed

\* The same for the accepted writes whose response is not empty.
C10_HoldsForNonEmptyResponse ==
    WriteAccepted /\ ioResp.kind = "secret" => WriteOutcomeAsClaimed

(***************************************************************************)
(* Claims about the round trip, checked under SpecRoundTrip.               *)
(***************************************************************************)
ReadsBack(w) ==
    /\ rtRead # NoIO
    /\ w \in rtRead.known
    /\ rtRead.cfg.authID = w.authID
    /\ rtRead.cfg.engine = w.engine
    /\ rtRead.cfg.path = w.path
    /\ rtRead.cfg.version = w.version

\* C11: a read at the version a successful write returned, with the same
\* engine path, secret path and auth-ID, succeeds and returns the hex
\* encoding of the private key of that write, also after later writes to
\* the same path.
C11_ReadReturnsWrittenKey ==
    \A w \in written :
        ReadsBack(w) =>
            /\ rtRead.res.err = "nil"
            /\ rtRead.res.secret = KeyHex[w.key]

\* a read of version 1 after a later write of another key to the same path
C11_Witness ==
    \E w \in written :
        /\ ReadsBack(w)
        /\ w.version = 1
        /\ \E later \in written :
              later.path = w.path /\ later.version > w.version /\ later.key # w.key

(***************************************************************************)
(* Claims about the account cache, checked under SpecCache.                *)
(***************************************************************************)
Count(slice, elem) == Cardinality({ i \in 1..Len(slice) : slice[i] = elem })

Cached == { All[i] : i \in 1..Len(All) }

Indexed == UNION { { ByAddr[k][i] : i \in 1..Len(ByAddr[k]) } : k \in DOMAIN ByAddr }

ScanCompleted == notify = 1

\* C12: after any sequence of Add, delete, deleteByFile and scans, every
\* account is as many times in All as in ByAddr[its address], every account
\* of a ByAddr list is in All, and no ByAddr key has an empty list.
C12_ViewsAgree ==
    /\ \A a \in Cached \cup Indexed : Count(All, a) = Count(Lookup(ByAddr, a.Address), a)
    /\ \A k \in DOMAIN ByAddr : \A i \in 1..Len(ByAddr[k]) : ByAddr[k][i].Address = k
    /\ \A k \in DOMAIN ByAddr : ByAddr[k] # <<>>

\* two accounts of one address are cached, after a direct call and a scan
\* that has deleted a file's account
C12_Witness ==
    /\ ScanCompleted
    /\ nCalls = 1
    /\ \E k \in DOMAIN ByAddr : Len(ByAddr[k]) = 2
    /\ \E f \in Files : dir[f] = Absent /\ nDir = 2

\* C13: after any sequence of Add, delete, deleteByFile and scans, in any
\* order of a scan's loops, All is non-decreasing under the URL comparison.
C13_AllSortedByURL ==
    \A i, j \in 1..Len(All) : i < j => Cmp(All[i].URL, All[j].URL) <= 0

\* three accounts of distinct URLs are cached after a scan
C13_Witness ==
    /\ ScanCompleted
    /\ Len(All) = 3
    /\ \A i, j \in 1..Len(All) : i < j => All[i].URL # All[j].URL

\* C14: what a reader copied out while a scan was in progress, with no
\* other scan and no direct call at work, is the index as it was before the
\* scan or as it is after the scan.
C14_ReaderSeesBeforeOrAfter ==
    (seen # NoIO /\ seen.alone) => seen.view \in {seen.pre, seen.post}

\* the URL-sorted list of the accounts of a set of files
RECURSIVE SortedAccounts(_, _)
SortedAccounts(d, F) ==
    IF F = {} THEN <<>>
    ELSE LET f == CHOOSE x \in F : \A y \in F : Compare(x, y) <= 0
         IN  <<readAccount(d, f)>> \o SortedAccounts(d, F \ {f})

ValidFiles(d) == { f \in Files : readAccount(d, f) # NoAccount }

\* C15: once a scan of the present directory has completed, All is the
\* URL-sorted list of one account for each present valid file, whatever
\* the cache held before.
C15_ScanGivesValidFiles ==
    (scanned >= 1 /\ AllIdle) => All = SortedAccounts(dir, ValidFiles(dir))

\* the next lock section of scan s reads a file that is present and bad
ReadsBadFile(s) ==
    /\ scans[s].pc = "run"
    /\ scans[s].todo # <<>>
    /\ Head(scans[s].todo).op = "Add"
    /\ dir[Head(scans[s].todo).path].c.kind \in BadKinds

\* C16: the step of a scan that reads a bad file adds no account, unlocks
\* nothing, and leaves the scan running with the rest of its files still
\* to be processed.
C16_BadFileIsSkipped ==
    [][\A s \in Scanners :
          (ReadsBadFile(s) /\ scans'[s].todo # scans[s].todo) =>
              /\ All' = All
              /\ ByAddr' = ByAddr
              /\ unlocked' = unlocked
              /\ scans'[s].pc = "run"
              /\ scans'[s].todo = Tail(scans[s].todo)]_vars

\* a completed scan that found a bad file and a valid file: the valid
\* file's account is cached and unlocked, the bad file has no account
C16_Witness ==
    /\ ScanCompleted
    /\ AllIdle
    /\ scanned >= 1
    /\ nCalls = 0
    /\ \E f \in Files : dir[f] # Absent /\ dir[f].c.kind \in BadKinds /\ fileC[f] # 0
    /\ Len(All) = 1
    /\ unlocked = {TimedUnlockCall(All[1], "nil")}

(***************************************************************************)
(* Claims about the scan, its pulse and its unlocks, checked under         *)
(* SpecScan.                                                               *)
(***************************************************************************)
\* a scanAccounts call returns nil in this step: at its end, or at once
\* when the file scan found no change
ScanReturns ==
    \/ \E s \in Scanners : scans[s].pc = "run" /\ scans'[s].pc = "idle"
    \/ scanned' > scanned

\* a scanAccounts call that found a change returns in this step
ChangeScanReturns == \E s \in Scanners : scans[s].pc = "run" /\ scans'[s].pc = "idle"

\* a scan at its last statement can take its step whatever the channel holds
NeverBlocksOnNotify ==
    \A s \in Scanners :
        (scans[s].pc = "run" /\ scans[s].todo = <<>> /\ scans[s].unlocking = NoAccount)
            => ENABLED ScanEnd(s)

\* C22: after every scan that completes without error a pulse is pending
\* on the notify channel until the consumer takes it; the scan never blocks
\* on the channel, and at most one pulse is pending.
C22_PulseAfterEveryScan ==
    /\ [](notify <= 1 /\ NeverBlocksOnNotify)
    /\ [][ScanReturns => notify' = 1]_vars

\* C22, amended: the same for every scan that found a created, deleted or
\* updated file; a scan that found no change returns without a pulse.
C22_PulseAfterEveryChangeScan ==
    /\ [](notify <= 1 /\ NeverBlocksOnNotify)
    /\ [][ChangeScanReturns => notify' = 1]_vars

\* a scan that found changes is at its send while the pulse of an earlier
\* scan is still pending
C22_Witness ==
    /\ notify = 1
    /\ \E s \in Scanners :
          /\ scans[s].pc = "run"
          /\ scans[s].todo = <<>>
          /\ scans[s].unlocking = NoAccount
          /\ scans[s].pre.All # All

\* scan s reads, in this step, a created or updated file that holds a
\* valid account
AddsAccount(s) ==
    /\ scans[s].pc = "run"
    /\ scans[s].todo # <<>>
    /\ scans'[s].todo # scans[s].todo
    /\ Head(scans[s].todo).op = "Add"
    /\ dir[Head(scans[s].todo).path].c.kind = "valid"

\* the account of the file scan s reads next
ArrivingAccount(s) ==
    [Address |-> dir[Head(scans[s].todo).path].c.addr,
     URL |-> [Scheme |-> KeyStoreScheme, Path |-> Head(scans[s].todo).path]]

\* TimedUnlock returns to scan s in this step
UnlockReturns(s) == scans[s].unlocking # NoAccount /\ scans'[s].unlocking = NoAccount

\* the account goes to the unlocker exactly when its address is listed
C23_UnlockIffListed ==
    \A s \in Scanners :
        AddsAccount(s) =>
            /\ ArrivingAccount(s).Address \in toUnlock => scans'[s].unlocking = ArrivingAccount(s)
            /\ ArrivingAccount(s).Address \notin toUnlock => scans'[s].unlocking = NoAccount

\* the unlocker is called with the account and timeout 0; whatever it
\* returns, the cache keeps the account and the scan keeps its files
C23_UnlockLeavesScan ==
    \A s \in Scanners :
        UnlockReturns(s) =>
            /\ \E err \in {"nil", "failed"} :
                  unlocked' = unlocked \cup {[acct |-> scans[s].unlocking, timeout |-> 0, err |-> err]}
            /\ All' = All
            /\ ByAddr' = ByAddr
            /\ scans'[s].pc = "run"
            /\ scans'[s].todo = scans[s].todo

\* C23: a created or updated file with a valid account has the unlocker
\* called with that account and timeout 0 if and only if the address is on
\* the auto-unlock list; a failed unlock leaves the account cached and the
\* rest of the scan's files to be processed.
C23_UnlockIffConfigured ==
    /\ [][C23_UnlockIffListed /\ C23_UnlockLeavesScan]_vars
    /\ [](\A u \in unlocked : u.acct.Address \in toUnlock /\ u.timeout = 0)

\* a completed scan of two files with listed addresses: both unlocks
\* failed and both accounts are cached
C23_Witness ==
    /\ AllIdle
    /\ Len(All) = 2
    /\ All[1] # All[2]
    /\ unlocked = {[acct |-> All[i], timeout |-> 0, err |-> "failed"] : i \in 1..2}

\* C24: while the unlock of a newly arrived account is in progress, a
\* pulse has been sent since the account was cached, and the scan can go on
\* with its other files and with its pulse.
C24_UnlockAfterSignal ==
    \A s \in Scanners :
        scans[s].unlocking # NoAccount =>
            /\ scans[s].pulsed
            /\ scans[s].todo # <<>> => ENABLED ScanStep(s)
            /\ scans[s].todo = <<>> => ENABLED ScanEnd(s)

(***************************************************************************)
(* Claims about MaybeReload, checked under SpecReload.                     *)
(***************************************************************************)
\* any two scans started by MaybeReload are minReloadInterval apart
ReloadsApart ==
    \A i, j \in 1..Len(reloads) : i < j => reloads[j] - reloads[i] >= 2

\* the first call, made while the watcher is not running, scans
FirstReloadScans ==
    (reloadRes # NoIO /\ reloadRes.first /\ reloadRes.did # "watched") => reloadRes.did = "scan"

\* MaybeReload starts no scan while the watcher is running
WatchedStartsNoScan == watcher = "running" => reloads' = reloads

\* C21: the first MaybeReload call made while the watcher is not running
\* scans the directory, any two scans started by MaybeReload are at least
\* minReloadInterval (2 s) apart, and MaybeReload starts no scan while the
\* watcher is running.
C21_ReloadsAreThrottled ==
    /\ [](FirstReloadScans /\ ReloadsApart)
    /\ [][WatchedStartsNoScan]_vars

(***************************************************************************)
(* Claims about GetEventStream, checked under SpecStream, SpecStreamFair   *)
(* and SpecBus.                                                            *)
(***************************************************************************)
\* the name of an event kind on the stream
KindName(kind) ==
    IF kind = 0 THEN "WALLET_ARRIVED" ELSE IF kind = 1 THEN "WALLET_OPENED" ELSE "WALLET_DROPPED"

\* the text of a wallet URL on the stream
URLText(url) == url.Scheme \o "://" \o url.Path

\* stream i has sent all the wallets it held when it was called
SnapshotDone(i) == streams[i].pc = "live"

\* the events stream i sent for the wallets it held when it was called
SnapshotEvents(i) == { j \in 1..Len(delivered[i]) : delivered[i][j].n = 0 }

\* one WalletArrived for every wallet held at the call, and no other
OneArrivalPerHeldWallet ==
    \A i \in Streams :
        /\ \A j \in SnapshotEvents(i) :
              \E url \in streams[i].held :
                  delivered[i][j].ev = [WalletEvent |-> "WALLET_ARRIVED", WalletUrl |-> URLText(url)]
        /\ SnapshotDone(i) =>
              \A url \in streams[i].held :
                  Cardinality({ j \in SnapshotEvents(i) :
                                  delivered[i][j].ev.WalletUrl = URLText(url) }) = 1

\* the events for the held wallets come before every live event
SnapshotBeforeLive ==
    \A i \in Streams : \A j, k \in 1..Len(delivered[i]) :
        (j < k /\ delivered[i][k].n = 0) => delivered[i][j].n = 0

\* live events come in the order of their sending, kind and URL as sent
LiveInOrderUnchanged ==
    \A i \in Streams : \A k \in 1..Len(delivered[i]) :
        delivered[i][k].n # 0 =>
            /\ delivered[i][k].ev = [WalletEvent |-> KindName(enq[delivered[i][k].n].Kind),
                                     WalletUrl |-> URLText(enq[delivered[i][k].n].URL)]
            /\ \A j \in 1..k : delivered[i][j].n <= delivered[i][k].n

QueueFull == subs # {} /\ Len(events) = 4

\* the backend can send its next event
ProducerNotBlocked == Len(enq) < MaxEvents => ENABLED (WalletArrives \/ WalletDrops)

\* an event sent on a full queue takes the place of the oldest one
DropsOldest ==
    (QueueFull /\ enq' # enq) =>
        /\ Len(events') = 4
        /\ \A k \in 1..3 : events'[k] = events[k + 1]
        /\ events'[4].n = Len(enq')

\* C26: a producer of wallet events is never blocked by a subscriber that
\* does not read: on a full queue (4 x number of vaults) the oldest
\* undelivered event is dropped and the new event is accepted.
C26_ProducerNeverBlocked == [](QueueFull => ProducerNotBlocked) /\ [][DropsOldest]_vars

\* the caller of stream i is gone and the handler has not returned
Disconnected(i) == streams[i].pc \in {"called", "snapshot", "live"} /\ ~streams[i].conn

\* no subscription of a stream that has returned is registered
ReturnedIsUnsubscribed == \A i \in Streams : streams[i].pc = "returned" => i \notin subs

\* a handler whose caller is gone returns
DisconnectedReturns == \A i \in Streams : Disconnected(i) ~> streams[i].pc = "returned"

\* C27: once the subscriber of a stream has disconnected, GetEventStream
\* eventually returns, whether or not another wallet event is produced,
\* and when it has returned its subscription is no longer registered.
C27_DisconnectedStreamReturns == []ReturnedIsUnsubscribed /\ DisconnectedReturns

(***************************************************************************)
(* Claims about Find, checked under SpecFind.                              *)
(***************************************************************************)
Found == findRes # NoIO

\* the requested URL, a bare file name joined to the cache directory
RequestedURL ==
    IF findRes.arg.URL.Path # <<>> /\ \A i \in 1..Len(findRes.arg.URL.Path) : findRes.arg.URL.Path[i] # "/"
    THEN [Scheme |-> findRes.arg.URL.Scheme, Path |-> keydir \o <<"/">> \o findRes.arg.URL.Path]
    ELSE findRes.arg.URL

CachedBefore == { findRes.pre.All[i] : i \in 1..Len(findRes.pre.All) }

\* the cached accounts that have the requested address
M == { x \in CachedBefore : x.Address = findRes.arg.Address }

\* the accounts Find may return: those of the address, or all of them for
\* the zero address
Candidates == IF findRes.arg.Address # ZeroAddress THEN M ELSE CachedBefore

ExactMatch == findRes.arg.URL.Path # <<>> /\ \E x \in Candidates : x.URL = RequestedURL

MatchesSet == { findRes.matches[i] : i \in 1..Len(findRes.matches) }

\* C17: with a nonzero address and no exact URL match the outcome follows
\* the set M: no-match when empty, the account when single, the ambiguous
\* error with exactly M, sorted by URL, when two or more.
C17_OutcomeFollowsMatchSet ==
    (Found /\ findRes.arg.Address # ZeroAddress /\ ~ExactMatch) =>
        /\ Cardinality(M) = 0 => findRes.err = "ErrNoMatch"
        /\ Cardinality(M) = 1 => findRes.err = "nil" /\ findRes.acct \in M
        /\ Cardinality(M) >= 2 =>
              /\ findRes.err = "AmbiguousAddrError"
              /\ MatchesSet = M
              /\ Len(findRes.matches) = Cardinality(M)
              /\ \A i, j \in 1..Len(findRes.matches) :
                    i < j => Cmp(findRes.matches[i].URL, findRes.matches[j].URL) <= 0

\* C18: a URL path that, joined to the cache directory when it is a bare
\* name, is the URL of a candidate returns that account, also among
\* several accounts of the address; a bare name is never matched as it is.
C18_ExactURLMatchWins ==
    /\ (Found /\ ExactMatch) =>
          /\ findRes.err = "nil"
          /\ findRes.acct \in Candidates
          /\ findRes.acct.URL = RequestedURL
    /\ (Found /\ findRes.arg.URL.Path # <<>> /\ Cardinality(Candidates) >= 2
          /\ findRes.err = "nil") =>
          findRes.acct.URL = RequestedURL

\* a bare file name finds the account of that file among two accounts of
\* the requested address, while an account with the bare name as its path
\* is cached too
C18_Witness ==
    /\ Found
    /\ findRes.arg.URL.Path = <<"a">>
    /\ findRes.arg.Address = 1
    /\ Cardinality(M) >= 2
    /\ AsAccount(<<"a">>, 1) \in M
    /\ findRes.err = "nil"
    /\ findRes.acct = AsAccount(Join(keydir, <<"a">>), 1)

\* C19: an account returned for a nonzero address has that address, and a
\* zero address with a URL path that matches no cached account gives the
\* no-match error.
C19_AddressRestrictsCandidates ==
    /\ (Found /\ findRes.arg.Address # ZeroAddress /\ findRes.err = "nil") =>
          findRes.acct.Address = findRes.arg.Address
    /\ (Found /\ findRes.arg.Address = ZeroAddress /\ findRes.arg.URL.Path # <<>>
          /\ ~\E x \in CachedBefore : x.URL = RequestedURL) =>
          findRes.err = "ErrNoMatch"

\* the requested URL is that of a cached account of another address, and
\* the one account of the requested address is returned
C19_Witness ==
    /\ Found
    /\ findRes.arg.Address = 2
    /\ findRes.arg.URL.Path # <<>>
    /\ \E x \in CachedBefore : x.URL = RequestedURL /\ x.Address = 1
    /\ findRes.err = "nil"
    /\ findRes.acct.Address = 2
    /\ findRes.acct.URL # RequestedURL

\* the Matches list of an ambiguous-address error is the sorted list of the
\* candidates at the time of the call
C20_MatchesKept ==
    (Found /\ findRes.err = "AmbiguousAddrError") =>
        findRes.matches = SortByURL(candidates(findRes.pre, findRes.arg))

\* a Find call leaves both views as they were
C20_FindStep == (~Found /\ Found') => (All' = All /\ ByAddr' = ByAddr)

\* C20: Find leaves All, every ByAddr list and the order inside each list
\* unchanged in every outcome, and the Matches list of an ambiguous-address
\* error stays as it was returned when the cache changes later.
C20_FindHasNoSideEffects == []C20_MatchesKept /\ [][C20_FindStep]_vars

\* an ambiguous-address error whose candidates were cached out of URL
\* order, and whose list in the cache has changed since
C20_Witness ==
    /\ Found
    /\ findRes.err = "AmbiguousAddrError"
    /\ findRes.arg.Address # ZeroAddress
    /\ findRes.matches # Lookup(findRes.pre.ByAddr, findRes.arg.Address)
    /\ Lookup(ByAddr, findRes.arg.Address) # Lookup(findRes.pre.ByAddr, findRes.arg.Address)


(***************************************************************************)
(* Claims about the request/response operations.                           *)
(***************************************************************************)
\* the calls logged so far
Calls == {rpcLog[k] : k \in 1..Len(rpcLog)}

\* the call returned an error
ReturnedError(call) == call.res.class \in {"status", "plain"}

\* C28: every error an operation returns is a status error whose code is
\* Internal or InvalidArgument; no operation returns an error without a code.
C28_ErrorsAreCoded ==
    \A call \in Calls :
        ReturnedError(call) =>
            /\ call.res.class = "status"
            /\ call.res.code \in {"Internal", "InvalidArgument"}

\* C29: no operation panics, whatever its request: every call ends in a
\* result or a returned error, and so does every event stream.
C29_NoOperationPanics ==
    /\ \A call \in Calls : call.res # Panic
    /\ \A i \in DOMAIN streams : streams[i].pc # "panicked"

InitCalls == {call \in Calls : call.op = "Init"}

\* the configuration of the request decodes and is valid
Acceptable(data) == data.json /\ data.valid

\* C30: Init builds the account manager only after the raw configuration was
\* decoded and Validate succeeded, and a configuration that does not decode
\* or is not valid gets InvalidArgument and no account manager is built.
C30_ValidationBeforeConnection ==
    \A call \in InitCalls :
        /\ "connected" \in call.steps =>
              /\ {"decoded", "validated"} \subseteq call.steps
              /\ Acceptable(call.req.RawConfiguration)
        /\ ~Acceptable(call.req.RawConfiguration) =>
              /\ call.res = statusError("InvalidArgument")
              /\ "connected" \notin call.steps

\* Init was called with bytes that are not JSON and with a configuration that
\* is not valid
C30_Witness ==
    /\ \E call \in InitCalls : ~call.req.RawConfiguration.json
                               /\ call.res = statusError("InvalidArgument")
    /\ \E call \in InitCalls : /\ call.req.RawConfiguration.json
                               /\ ~call.req.RawConfiguration.valid
                               /\ call.res = statusError("InvalidArgument")

\* Init got a configuration that decodes and is valid, and the vault accepts
\* the credentials
GoodInit(call) ==
    /\ call.op = "Init"
    /\ Acceptable(call.req.RawConfiguration)
    /\ call.req.RawConfiguration.accepted

\* the last Init call that returned an acknowledgement, or 0
LastAck ==
    LET acks == {k \in 1..Len(rpcLog) : rpcLog[k].op = "Init" /\ rpcLog[k].res = OK}
    IN  IF acks = {} THEN 0 ELSE CHOOSE k \in acks : \A j \in acks : j <= k

\* C31: Init with a well-formed, valid configuration and a vault that accepts
\* the credentials returns an acknowledgement, and the account manager it
\* built is the plugin's account manager from then on.
C31_GoodInitIsAcknowledged ==
    /\ \A call \in Calls : GoodInit(call) => call.res = OK
    /\ acctManager = LastAck

(***************************************************************************)
(* Claims about GetKey.                                                    *)
(***************************************************************************)
\* GetKey returned a key
KeyReturned == keyCall # NoIO /\ keyCall.res.err = "nil"

\* C32: a key GetKey returns for addr derives addr; a secret whose key derives
\* another address never gives a key for addr.
C32_ReturnedKeyDerivesAddress == KeyReturned => keyCall.res.Address = keyCall.addr

(***************************************************************************)
(* Claims about the renewal tasks.                                         *)
(***************************************************************************)
\* the renewal task of session s is re-authenticating
Reauthenticating(s) == sess[s].pc \in {"reauth", "sleep"}

\* the renewal task of a session exists only for a session that was made, and
\* while it re-authenticates no driver of the session runs
NoDriverWhileReauthenticating ==
    \A s \in Sessions :
        /\ sess[s].pc # "none" => sess[s].made
        /\ Reauthenticating(s) => sess[s].drv # "running"

\* a driver is started for a new session, or by the session's renewal task
\* after the driver before it has signalled its end
DriverStartsAfterDone ==
    \A s \in Sessions :
        (sess'[s].drv = "running" /\ sess[s] # sess'[s]) =>
            \/ ~sess[s].made /\ sess[s].drv = "none"
            \/ sess[s].pc = "select" /\ sess[s].drv = "done"
            \/ sess[s].pc = "reauth" /\ sess[s].drv = "none"

\* C33: a renewable session has one renewal task and at most one running
\* driver: a driver starts only after the one before it signalled its end,
\* and no re-authentication overlaps a running driver.
C33_OneRenewalTaskPerSession ==
    []NoDriverWhileReauthenticating /\ [][DriverStartsAfterDone]_vars

\* a session whose driver was started again after a re-authentication
C33_Witness ==
    \E s \in Sessions :
        /\ sess[s].drv = "running"
        /\ sess[s].lastIssued # sess[s].firstLease

(***************************************************************************)
(* Claims about StoreKey.                                                  *)
(***************************************************************************)
\* the vault took the write: a request was sent and answered with a secret
VaultWrote == storeCall.resp.kind = "secret"

\* the vault did not take the write: no session for the auth-ID, or an error
VaultWriteFailed == storeCall.resp.kind \in {"notsent", "err"}

\* the URI of the secret of the request
SecretURI == VaultAddr \o "/v1/" \o dataPath(storeCall.cfg)

\* the version in the vault's answer
ReturnedVersion == ParseInt(storeCall.resp.vtext).v

\* C34: StoreKey writes to the vault before it writes the file: after a failed
\* vault write the file is as before; after a vault write and a failed file
\* write the error names the secret's URI; on success the file records the
\* version the vault returned.
C34_VaultBeforeFile ==
    storeCall # NoIO =>
        /\ VaultWriteFailed =>
              /\ storeCall.res.err \notin {"nil", "none"}
              /\ storeCall.res.after = storeCall.before
        /\ (VaultWrote /\ storeCall.res.err = "unable to write data to file") =>
              /\ storeCall.outcome # "nil"
              /\ storeCall.res.errUri = SecretURI \o "?version=" \o FormatInt(ReturnedVersion)
              /\ storeCall.res.after = storeCall.before
        /\ storeCall.res.err = "nil" =>
              /\ VaultWrote
              /\ storeCall.res.after = [exists |-> TRUE, SecretVersion |-> ReturnedVersion]

\* a key was stored with a request version that is not the version the vault
\* returned, over a file that was there before
C34_Witness ==
    /\ storeCall # NoIO
    /\ storeCall.res.err = "nil"
    /\ storeCall.cfg.version # ReturnedVersion
    /\ storeCall.before.exists
    /\ storeCall.before # storeCall.res.after

(***************************************************************************)
(* Claims about the start of a stream and about two streams.               *)
(***************************************************************************)
\* stream i has forwarded everything that was sent to it so far
CaughtUp(i) == streams[i].pc = "live" /\ streams[i].conn /\ events = <<>>

\* stream i has reported the arrival of the wallet url
ArrivalReported(i, url) ==
    \E j \in 1..Len(delivered[i]) :
        delivered[i][j].ev = [WalletEvent |-> "WALLET_ARRIVED", WalletUrl |-> URLText(url)]

\* C35: no wallet arrival is lost around the start of a stream: once the
\* stream has caught up, every wallet the backend holds was reported to it as
\* arrived, also a wallet that arrived between the snapshot and the
\* registration of the subscription.
C35_NoArrivalLost ==
    \A i \in Streams : CaughtUp(i) => \A url \in wallets : ArrivalReported(i, url)

\* a stream past its registration and not yet returned
Active(i) == streams[i].pc \in {"snapshot", "live"}

\* every active stream has its subscription, whatever the other did
KeepsOwnSubscription == \A i \in Streams : Active(i) => i \in subs

\* no stream ends in a panic
StreamsEndNormally == \A i \in Streams : streams[i].pc # "panicked"

\* a live event reaches a stream once
LiveEventsOnce ==
    \A i \in Streams : \A j, k \in 1..Len(delivered[i]) :
        (j # k /\ delivered[i][j].n # 0) => delivered[i][j].n # delivered[i][k].n

\* C36: with two streams active at once each stream receives every live
\* event, and the end of one stream cancels its own subscription only: the
\* other keeps its subscription and later ends normally.
C36_StreamsAreIndependent ==
    KeepsOwnSubscription /\ StreamsEndNormally /\ LiveEventsOnce

(***************************************************************************)
(* Claims about Close.                                                     *)
(***************************************************************************)
\* no scan has sent on the closed notify channel
NoSendOnClosedNotify == \A s \in Scanners : scans[s].pc # "panicked"

\* the notify channel is closed by the first Close and by no other
ClosedExactlyOnce == closings = IF closes = 0 THEN 0 ELSE 1

\* C37: however Close interleaves with a running scan, the scan never sends
\* on a closed notify channel; Close closes the channel exactly once, and a
\* second Close or a scan started after Close completes without failure.
C37_CloseIsSafe == NoSendOnClosedNotify /\ ClosedExactlyOnce

(***************************************************************************)
(* Claims about a failed construction of the pool.                         *)
(***************************************************************************)
\* the renewal task of session s, or a driver it started, is there
TaskRunning(s) == sess[s].pc # "none" \/ sess[s].drv = "running"

\* C38: when newVaultClientManager has returned an error because a later auth
\* config could not authenticate, no renewal task started for an earlier
\* session of the same call is still running.
C38_NoTaskAfterFailedConstruction ==
    mgr = "failed" => \A s \in Sessions : ~TaskRunning(s)

====
